---- MODULE Spec2Model ----
(***************************************************************************)
(* Usage Aggregation Engine of token-usage: the event-log analyzer         *)
(* (claude_code_stats.py), the tabular analyzer (cursor_stats.py), the     *)
(* two collectors, the team merge (team_summary.py) and the migration      *)
(* ratio of the three report paths.                                        *)
(*                                                                         *)
(* Python values are modelled as follows.  A dict is a TLA+ function with  *)
(* a set of strings as its domain (a record); d.get(k, v) is Get(d, k, v). *)
(* A list is a sequence.  An int is an Int.  A float (the tabular side) is *)
(* a fixed-point number counted in halves: F(n) is the float n.0 and the   *)
(* value 1 is 0.5.  A datetime is [local, off]: the wall clock reading and *)
(* the UTC offset, in model time units; DayLen units make a calendar day.  *)
(***************************************************************************)
EXTENDS Integers, Sequences, FiniteSets, TLC

\* ------------------------------------------------------------------ bounds
\* Longest event-log file of the deduplication inputs.
MaxLines == 3
\* Longest event-log file of the window inputs.
MaxWinLines == 2
\* Longest tabular export of the classification inputs.
MaxRows == 2
\* Instants run over 0..MaxTime.
MaxTime == 2
\* Length of a calendar day in model time units.
DayLen == 2

\* ------------------------------------------------------------------- state
VARIABLES
  start_date,        \* the window of the running analyzer or collector,
  end_date,          \* as UTC instants
  jsonl_path,        \* the session file: [exists, readable, lines]
  line_no,           \* lines of the session file consumed so far
  stats,             \* the aggregate analyze_jsonl_file builds
  seen_request_ids,  \* request ids whose usage was counted in this pass
  jl_pc,             \* "idle", "scan" or "returned"
  csv_path,          \* the rows csv.DictReader yields from the export
  target_user,       \* the user filter; "" when there is none
  row_no,            \* rows consumed so far
  csv_stats,         \* the aggregate analyze_csv builds
  csv_pc,            \* "idle", "scan", "returned" or "raised"
  project_dirs,      \* event-log collector: the projects and their sessions
  project_no,        \* projects finished so far
  entry_no,          \* session entries of the current project consumed
  project_stats,     \* the tally of the current project
  cc_result,         \* the summary the event-log collect_stats builds
  cc_pc,             \* "idle", "sessions", "returned"
  csv_files,         \* tabular collector: the exports to fold
  csv_file_no,       \* exports folded so far
  cu_result,         \* the summary the tabular collect_stats builds
  combined,          \* its combined_by_model/_user/_day and the two sets
  cu_pc,             \* "idle", "files", "returned"
  stats_files,       \* merge_stats: the artifact files
  file_no,           \* artifact files consumed so far
  result,            \* the Team Summary merge_stats builds
  members,           \* owners seen
  claude_members,    \* owners with an event-log artifact
  cursor_members,    \* owners with a tabular artifact
  mg_pc,             \* "idle", "files", "merged"
  data,              \* the personal data given to the markdown report
  report,            \* what a report path printed about the migration
  request,           \* the parameters given to a stats_service function
  args,              \* the parsed command line of a collector script
  utc_now,           \* main: datetime.now(timezone.utc)
  cli_pc             \* "idle", "request", "main", "dates", "explicit",
                     \* "days", "week", "raised", "exit"

jl_vars == <<jsonl_path, line_no, stats, seen_request_ids, jl_pc>>
csv_vars == <<csv_path, target_user, row_no, csv_stats, csv_pc>>
cc_vars ==
  <<project_dirs, project_no, entry_no, project_stats, cc_result, cc_pc>>
cu_vars == <<csv_files, csv_file_no, cu_result, combined, cu_pc>>
mg_vars ==
  <<stats_files, file_no, result, members, claude_members, cursor_members,
    mg_pc>>
rp_vars == <<data, report>>
cli_vars == <<request, args, utc_now, cli_pc>>
vars ==
  <<start_date, end_date, jl_vars, csv_vars, cc_vars, cu_vars, mg_vars,
    rp_vars, cli_vars>>
not_jl_vars == <<csv_vars, cc_vars, cu_vars, mg_vars, rp_vars, cli_vars>>
not_csv_vars == <<jl_vars, cc_vars, cu_vars, mg_vars, rp_vars, cli_vars>>
not_cc_vars == <<jl_vars, csv_vars, cu_vars, mg_vars, rp_vars, cli_vars>>
not_mg_vars == <<jl_vars, csv_vars, cc_vars, cu_vars, cli_vars>>
not_rp_vars == <<jl_vars, csv_vars, cc_vars, cu_vars, cli_vars>>
not_cli_vars == <<jl_vars, csv_vars, cc_vars, cu_vars, mg_vars, rp_vars>>

\* ----------------------------------------------------------------- helpers
\* dict.get(k, dflt)
Get(d, k, dflt) == IF k \in DOMAIN d THEN d[k] ELSE dflt

\* defaultdict: d[k] = f(d[k]), the bucket made from zero when k is new
Upd(d, k, zero, f(_)) ==
  [x \in DOMAIN d \cup {k} |->
     IF x = k THEN f(IF k \in DOMAIN d THEN d[k] ELSE zero) ELSE d[x]]

\* the empty dict
EmptyDict == [x \in {} |-> 0]

\* All sequences over S of length at most n.
SeqsUpTo(S, n) == UNION {[1..k -> S] : k \in 0..n}

RECURSIVE SumOver(_, _)
\* Sum of f[x] over the finite set dom (dom a subset of DOMAIN f).
SumOver(f, dom) ==
  IF dom = {} THEN 0
  ELSE LET x == CHOOSE y \in dom : TRUE
       IN f[x] + SumOver(f, dom \ {x})

\* ---------------------------------------------------- Timestamp Normalizer
\* A timestamp field as it stands in the input:
\*   [form |-> "Z", local]            an ISO string ending in Z
\*   [form |-> "offset", local, off]  an ISO string with a numeric offset
\*   [form |-> "naive", local]        an ISO string without offset
\*   [form |-> "bad"]                 a string fromisoformat rejects
\*   [form |-> "nonstr"]              a truthy value that is not a string
\*   [form |-> "none"]                None, "" or another falsy value
TsZ(t) == [form |-> "Z", local |-> t]
TsOffset(t, o) == [form |-> "offset", local |-> t, off |-> o]
TsNaive(t) == [form |-> "naive", local |-> t]
TsBad == [form |-> "bad"]
TsNonStr == [form |-> "nonstr"]
TsNone == [form |-> "none"]

\* parse_timestamp: a datetime carrying its offset (UTC for "Z" and for a
\* naive string), or the exception raised.  ts.endswith on a non-string
\* raises AttributeError; fromisoformat raises ValueError, and the except
\* branch retries the same parse, which raises ValueError again.
parse_timestamp(ts) ==
  IF ts.form = "nonstr" THEN [ok |-> FALSE, err |-> "AttributeError"]
  ELSE IF ts.form = "bad" THEN [ok |-> FALSE, err |-> "ValueError"]
  ELSE IF ts.form = "offset"
       THEN [ok |-> TRUE, local |-> ts.local, off |-> ts.off]
       ELSE [ok |-> TRUE, local |-> ts.local, off |-> 0]

\* The instant an aware datetime denotes: what <, > compare.
Instant(dt) == dt.local - dt.off

\* datetime.date(): the calendar day of the wall clock reading.
DateOf(dt) == dt.local \div DayLen

\* ------------------------------------------------------ Event-Log Analyzer
ZeroBucket ==
  [input_tokens |-> 0, output_tokens |-> 0,
   cache_creation_input_tokens |-> 0, cache_read_input_tokens |-> 0,
   requests |-> 0]

\* The aggregate analyze_jsonl_file starts from.
ZeroStats ==
  [input_tokens |-> 0, output_tokens |-> 0,
   cache_creation_input_tokens |-> 0, cache_read_input_tokens |-> 0,
   user_messages |-> 0, assistant_messages |-> 0, tool_calls |-> 0,
   models_used |-> EmptyDict, by_day |-> EmptyDict]

\* The bucket with one request's usage added.
AddUsage(b, usage) ==
  [b EXCEPT
     !.input_tokens = @ + Get(usage, "input_tokens", 0),
     !.output_tokens = @ + Get(usage, "output_tokens", 0),
     !.cache_creation_input_tokens =
        @ + Get(usage, "cache_creation_input_tokens", 0),
     !.cache_read_input_tokens = @ + Get(usage, "cache_read_input_tokens", 0),
     !.requests = @ + 1]

\* Number of dict items of a content list with the given type.
RECURSIVE CountParts(_, _)
CountParts(content, type) ==
  IF content = <<>> THEN 0
  ELSE (IF "nondict" \notin DOMAIN Head(content)
           /\ Get(Head(content), "type", "") = type THEN 1 ELSE 0)
       + CountParts(Tail(content), type)

\* The user branch: one user message when the content is a string or a
\* list holding a text part.
user_record(st, record) ==
  LET message == Get(record, "message", EmptyDict)
      content == Get(message, "content", [kind |-> "str"])
  IN IF content.kind = "str"
        \/ (content.kind = "list" /\ CountParts(content.parts, "text") > 0)
     THEN [st EXCEPT !.user_messages = @ + 1]
     ELSE st

\* Seeded fault: the day bucket misses the cache-read tokens.
add_usage_day_without_cache_read(st, message, timestamp) ==
  LET usage == Get(message, "usage", EmptyDict)
      model == Get(message, "model", "unknown")
      day == DateOf(timestamp)
      uncached == [k \in DOMAIN usage \ {"cache_read_input_tokens"} |->
                     usage[k]]
  IN IF DOMAIN usage = {} THEN st
     ELSE [st EXCEPT
             !.input_tokens = @ + Get(usage, "input_tokens", 0),
             !.output_tokens = @ + Get(usage, "output_tokens", 0),
             !.cache_creation_input_tokens =
                @ + Get(usage, "cache_creation_input_tokens", 0),
             !.cache_read_input_tokens =
                @ + Get(usage, "cache_read_input_tokens", 0),
             !.models_used =
                Upd(@, model, ZeroBucket, LAMBDA b : AddUsage(b, usage)),
             !.by_day =
                Upd(@, day, ZeroBucket, LAMBDA b : AddUsage(b, uncached))]

\* The usage of an assistant record added to the totals, to the bucket of
\* its model and to the bucket of its day.
add_usage(st, message, timestamp) ==
  LET usage == Get(message, "usage", EmptyDict)
      model == Get(message, "model", "unknown")
      day == DateOf(timestamp)
  IN IF DOMAIN usage = {} THEN st
     ELSE [st EXCEPT
             !.input_tokens = @ + Get(usage, "input_tokens", 0),
             !.output_tokens = @ + Get(usage, "output_tokens", 0),
             !.cache_creation_input_tokens =
                @ + Get(usage, "cache_creation_input_tokens", 0),
             !.cache_read_input_tokens =
                @ + Get(usage, "cache_read_input_tokens", 0),
             !.models_used =
                Upd(@, model, ZeroBucket, LAMBDA b : AddUsage(b, usage)),
             !.by_day =
                Upd(@, day, ZeroBucket, LAMBDA b : AddUsage(b, usage))]

\* The text parts and tool_use parts of an assistant record counted.
count_content(st, message) ==
  LET content == Get(message, "content", [kind |-> "list", parts |-> <<>>])
  IN IF content.kind = "list"
     THEN [st EXCEPT
             !.assistant_messages = @ + CountParts(content.parts, "text"),
             !.tool_calls = @ + CountParts(content.parts, "tool_use")]
     ELSE st

\* Seeded fault: no deduplication, every record's usage is added.
assistant_record_no_dedup(s, record, timestamp) ==
  LET message == Get(record, "message", EmptyDict)
      request_id == Get(record, "requestId", "")
  IN [s EXCEPT
        !.seen = IF request_id # "" THEN @ \cup {request_id} ELSE @,
        !.stats = count_content(add_usage(@, message, timestamp), message)]

\* The assistant branch.  A record whose request id was seen before is
\* skipped by `continue`, its content included.
assistant_record(s, record, timestamp) ==
  LET message == Get(record, "message", EmptyDict)
      request_id == Get(record, "requestId", "")
  IN IF request_id # "" /\ request_id \in s.seen THEN s
     ELSE [s EXCEPT
             !.seen = IF request_id # "" THEN @ \cup {request_id} ELSE @,
             !.stats =
                count_content(add_usage(@, message, timestamp), message)]

\* Seeded fault: the window test excludes both ends.
in_window_exclusive(timestamp, sd, ed) ==
  ~(Instant(timestamp) <= sd \/ Instant(timestamp) >= ed)

\* The window test of both analyzers:
\* not (timestamp < start_date or timestamp > end_date).
in_window(timestamp, sd, ed) ==
  ~(Instant(timestamp) < sd \/ Instant(timestamp) > ed)

\* One iteration of the loop over the lines of a session file.
\* s = [stats, seen, raised]; raised: an exception left the loop.
analyze_line(s, line, sd, ed) ==
  IF line.kind \in {"blank", "badjson"} THEN s
  ELSE IF line.kind = "nonobject" THEN [s EXCEPT !.raised = TRUE]
  ELSE
    LET record == line.record
        timestamp_str == Get(record, "timestamp", TsNone)
        parsed == parse_timestamp(timestamp_str)
        record_type == Get(record, "type", "")
    IN IF timestamp_str.form = "none" THEN s
       ELSE IF ~parsed.ok
         THEN (IF parsed.err = "ValueError" THEN s
               ELSE [s EXCEPT !.raised = TRUE])
       ELSE IF ~in_window(parsed, sd, ed) THEN s
       ELSE IF record_type = "user"
         THEN [s EXCEPT !.stats = user_record(@, record)]
       ELSE IF record_type = "assistant"
         THEN assistant_record(s, record, parsed)
       ELSE s

RECURSIVE analyze_lines(_, _, _, _)
\* The loop: the lines in order, up to the first exception.
analyze_lines(s, lines, sd, ed) ==
  IF lines = <<>> \/ s.raised THEN s
  ELSE analyze_lines(analyze_line(s, Head(lines), sd, ed), Tail(lines), sd, ed)

\* Seeded fault: the set of seen request ids is not fresh: it already
\* holds the id an earlier file used.
analyze_jsonl_file_shared_seen(file, sd, ed) ==
  IF ~file.exists \/ ~file.readable THEN ZeroStats
  ELSE analyze_lines([stats |-> ZeroStats, seen |-> {"r1"}, raised |-> FALSE],
                     file.lines, sd, ed).stats

\* Seeded fault: the lines are read whether or not the file opens.
analyze_jsonl_file_always_reads(file, sd, ed) ==
  analyze_lines([stats |-> ZeroStats, seen |-> {}, raised |-> FALSE],
                file.lines, sd, ed).stats

\* analyze_jsonl_file as a function of the file and the window.
analyze_jsonl_file(file, sd, ed) ==
  IF ~file.exists \/ ~file.readable THEN ZeroStats
  ELSE analyze_lines([stats |-> ZeroStats, seen |-> {}, raised |-> FALSE],
                     file.lines, sd, ed).stats

\* ---- the analyzer as a state machine: one step per line of the file
JsonlIdle ==
  /\ jsonl_path = [exists |-> FALSE, readable |-> FALSE, lines |-> <<>>]
  /\ line_no = 0
  /\ stats = ZeroStats
  /\ seen_request_ids = {}
  /\ jl_pc = "idle"

\* Payloads of assistant records.
Usage1 ==
  [input_tokens |-> 100, output_tokens |-> 50,
   cache_creation_input_tokens |-> 7, cache_read_input_tokens |-> 3]
Usage2 == [input_tokens |-> 20, output_tokens |-> 10]
\* A response served from the prompt cache: no fresh input tokens.
Usage3 ==
  [input_tokens |-> 0, output_tokens |-> 10, cache_read_input_tokens |-> 5]
TextPart == [type |-> "text"]
ToolUsePart == [type |-> "tool_use"]
ToolResultPart == [type |-> "tool_result"]
ListOf(parts) == [kind |-> "list", parts |-> parts]

\* What an assistant record carries besides its request id.
Events ==
  { [ts |-> TsZ(1),
     message |-> [model |-> "m1", usage |-> Usage1,
                  content |-> ListOf(<<TextPart>>)]],
    [ts |-> TsZ(2),
     message |-> [model |-> "m2", usage |-> Usage2,
                  content |-> ListOf(<<TextPart, ToolUsePart>>)]],
    [ts |-> TsZ(1),
     message |-> [content |-> ListOf(<<ToolUsePart>>)]],
    [ts |-> TsZ(0),
     message |-> [model |-> "m1", usage |-> Usage1,
                  content |-> ListOf(<<TextPart>>)]] }

Assistant(ev, rid) ==
  IF rid = ""
  THEN [type |-> "assistant", timestamp |-> ev.ts, message |-> ev.message]
  ELSE [type |-> "assistant", timestamp |-> ev.ts, requestId |-> rid,
        message |-> ev.message]

UserText(ts) ==
  [type |-> "user", timestamp |-> ts, message |-> [content |-> [kind |-> "str"]]]

\* A user record at instant 1 with the given content: ListOf(parts), a
\* string [kind |-> "str"], or JSON null [kind |-> "null"].
UserWith(content) ==
  [type |-> "user", timestamp |-> TsZ(1), message |-> [content |-> content]]

RecordLine(record) == [kind |-> "record", record |-> record]

\* Lines of the deduplication inputs: assistant records with and without a
\* request id, inside and outside the window <<1, 2>>.
DedupLines ==
  { RecordLine(Assistant(ev, rid)) : ev \in Events, rid \in {"", "r1"} }
  \cup { RecordLine(Assistant(ev, "r2")) :
           ev \in {e \in Events : "usage" \in DOMAIN e.message /\ e.ts # TsZ(0)} }

\* Lines of the window inputs: a user message and an assistant record
\* without request id at every instant, written with "Z", without offset
\* and with a numeric offset.
WindowLines ==
  { RecordLine(UserText(TsZ(t))) : t \in 0..MaxTime }
  \cup { RecordLine(Assistant([ts |-> TsNaive(t),
                               message |-> [model |-> "m1", usage |-> Usage2]], "")) :
           t \in 0..MaxTime }
  \cup { RecordLine(UserText(TsOffset(t + 1, 1))) : t \in 0..MaxTime }

Windows == { w \in (0..MaxTime) \X (0..MaxTime) : w[1] <= w[2] }

JsonlInit ==
  /\ \/ /\ start_date = 1 /\ end_date = 2
        /\ jsonl_path \in
             { [exists |-> TRUE, readable |-> TRUE, lines |-> ls] :
                 ls \in SeqsUpTo(DedupLines, MaxLines) }
             \cup { [exists |-> FALSE, readable |-> FALSE, lines |-> <<>>],
                    [exists |-> TRUE, readable |-> FALSE, lines |-> <<>>],
                    [exists |-> TRUE, readable |-> FALSE,
                     lines |-> <<RecordLine(UserText(TsZ(1)))>>] }
     \/ /\ \E w \in Windows : start_date = w[1] /\ end_date = w[2]
        /\ jsonl_path \in
             { [exists |-> TRUE, readable |-> TRUE, lines |-> ls] :
                 ls \in SeqsUpTo(WindowLines, MaxWinLines) }
  /\ line_no = 0
  /\ stats = ZeroStats
  /\ seen_request_ids = {}
  /\ jl_pc = "scan"

\* Lines of the malformed-input files: an empty line, a line that is not
\* JSON, a JSON value that is not an object, records whose timestamp is
\* unparseable, not a string, empty or missing, and well-formed records
\* inside the window <<1, 2>>, two of them written with a numeric offset
\* that puts the wall clock reading on another day than the instant, and
\* user records whose content is a list with and without a text part, null,
\* or absent.
MalformedLines ==
  { [kind |-> "blank"], [kind |-> "badjson"], [kind |-> "nonobject"],
    RecordLine(UserText(TsBad)),
    RecordLine(UserText(TsNonStr)),
    RecordLine(UserText(TsNone)),
    RecordLine([type |-> "assistant",
                message |-> [model |-> "m1", usage |-> Usage1]]) }
WellFormedLines ==
  { RecordLine(UserText(TsZ(2))),
    RecordLine(UserWith(ListOf(<<TextPart>>))),
    RecordLine(UserWith(ListOf(<<ToolResultPart>>))),
    RecordLine(UserWith(ListOf(<<ToolResultPart, TextPart>>))),
    RecordLine(UserWith([kind |-> "null"])),
    RecordLine([type |-> "user", timestamp |-> TsZ(1),
                message |-> EmptyDict]),
    RecordLine([type |-> "user", timestamp |-> TsZ(1)]),
    RecordLine(Assistant([ts |-> TsZ(1),
                          message |-> [model |-> "m1", usage |-> Usage1,
                                       content |-> ListOf(<<TextPart>>)]],
                         "")),
    RecordLine(Assistant([ts |-> TsOffset(2, 1),
                          message |-> [model |-> "m1", usage |-> Usage2]],
                         "")),
    RecordLine(Assistant([ts |-> TsOffset(1, 0 - 1),
                          message |-> [model |-> "m2", usage |-> Usage2]],
                         "")) }

JsonlLinesInit ==
  /\ start_date = 1 /\ end_date = 2
  /\ jsonl_path \in
       { [exists |-> TRUE, readable |-> TRUE, lines |-> ls] :
           ls \in SeqsUpTo(MalformedLines \cup WellFormedLines, MaxWinLines) }
       \cup { [exists |-> FALSE, readable |-> FALSE, lines |-> <<>>],
              [exists |-> TRUE, readable |-> FALSE, lines |-> <<>>] }
  /\ line_no = 0
  /\ stats = ZeroStats
  /\ seen_request_ids = {}
  /\ jl_pc = "scan"

\* if not jsonl_path.exists(): return stats
JsonlMissing ==
  /\ jl_pc = "scan"
  /\ ~jsonl_path.exists
  /\ jl_pc' = "returned"
  /\ UNCHANGED <<start_date, end_date, jsonl_path, line_no, stats,
                 seen_request_ids>>
  /\ UNCHANGED not_jl_vars

\* open() raises; the handler prints a warning and the zero aggregate is
\* returned.
JsonlOpenFails ==
  /\ jl_pc = "scan"
  /\ jsonl_path.exists /\ ~jsonl_path.readable
  /\ jl_pc' = "returned"
  /\ UNCHANGED <<start_date, end_date, jsonl_path, line_no, stats,
                 seen_request_ids>>
  /\ UNCHANGED not_jl_vars

\* One iteration of `for line in f`.
JsonlLine ==
  /\ jl_pc = "scan"
  /\ jsonl_path.exists /\ jsonl_path.readable
  /\ line_no < Len(jsonl_path.lines)
  /\ LET s == analyze_line([stats |-> stats, seen |-> seen_request_ids,
                            raised |-> FALSE],
                           jsonl_path.lines[line_no + 1], start_date, end_date)
     IN /\ stats' = s.stats
        /\ seen_request_ids' = s.seen
        /\ jl_pc' = IF s.raised THEN "returned" ELSE "scan"
  /\ line_no' = line_no + 1
  /\ UNCHANGED <<start_date, end_date, jsonl_path>>
  /\ UNCHANGED not_jl_vars

\* The loop is over: return stats.
JsonlReturn ==
  /\ jl_pc = "scan"
  /\ jsonl_path.exists /\ jsonl_path.readable
  /\ line_no = Len(jsonl_path.lines)
  /\ jl_pc' = "returned"
  /\ UNCHANGED <<start_date, end_date, jsonl_path, line_no, stats,
                 seen_request_ids>>
  /\ UNCHANGED not_jl_vars

JsonlNext == JsonlMissing \/ JsonlOpenFails \/ JsonlLine \/ JsonlReturn

\* -------------------------------------------------------- Tabular Analyzer
\* The float n.0, and a float as the count of its halves.
F(n) == 2 * n

\* int(x) of a non-negative float: truncation
PyInt(x) == x \div 2

\* A numeric cell: [cell |-> "num", halves], [cell |-> "blank"] (empty,
\* spaces or None) or [cell |-> "junk"] (text float() rejects).
Num(h) == [cell |-> "num", halves |-> h]
Blank == [cell |-> "blank"]
Junk == [cell |-> "junk"]

\* parse_number: 0.0 for an empty or malformed cell
parse_number(c) == IF c.cell = "num" THEN c.halves ELSE 0

\* `marker in kind`: a kind is the sequence of its comma-separated phrases
Contains(kind, marker) == \E i \in 1..Len(kind) : kind[i] = marker

ZeroCsvBucket ==
  [input_tokens_with_cache |-> 0, input_tokens_without_cache |-> 0,
   cache_read_tokens |-> 0, output_tokens |-> 0, total_tokens |-> 0,
   requests |-> 0, records |-> 0]

ZeroCsvDayBucket ==
  [input_tokens_with_cache |-> 0, output_tokens |-> 0, total_tokens |-> 0,
   requests |-> 0, records |-> 0]

\* The aggregate analyze_csv starts from.
ZeroCsvStats ==
  [input_tokens_with_cache |-> 0, input_tokens_without_cache |-> 0,
   cache_read_tokens |-> 0, output_tokens |-> 0, total_tokens |-> 0,
   requests |-> 0, records |-> 0, errored_records |-> 0,
   by_model |-> EmptyDict, by_user |-> EmptyDict, by_day |-> EmptyDict,
   active_days |-> {}, users |-> {}]

\* The parsed numbers of a billable row.
row_numbers(row) ==
  [input_tokens_with_cache |->
     parse_number(Get(row, "Input (w/ Cache Write)", Num(0))),
   input_tokens_without_cache |->
     parse_number(Get(row, "Input (w/o Cache Write)", Num(0))),
   cache_read_tokens |-> parse_number(Get(row, "Cache Read", Num(0))),
   output_tokens |-> parse_number(Get(row, "Output Tokens", Num(0))),
   total_tokens |-> parse_number(Get(row, "Total Tokens", Num(0))),
   requests |-> parse_number(Get(row, "Requests", Num(0)))]

\* A model or user bucket, or the totals, with a billable row added.
AddRow(b, n) ==
  [b EXCEPT
     !.input_tokens_with_cache = @ + n.input_tokens_with_cache,
     !.input_tokens_without_cache = @ + n.input_tokens_without_cache,
     !.cache_read_tokens = @ + n.cache_read_tokens,
     !.output_tokens = @ + n.output_tokens,
     !.total_tokens = @ + n.total_tokens,
     !.requests = @ + n.requests,
     !.records = @ + 1]

\* A day bucket with a billable row added.
AddRowDay(b, n) ==
  [b EXCEPT
     !.input_tokens_with_cache = @ + n.input_tokens_with_cache,
     !.output_tokens = @ + n.output_tokens,
     !.total_tokens = @ + n.total_tokens,
     !.requests = @ + n.requests,
     !.records = @ + 1]

\* A billable row accumulated into the totals and the three buckets.
accumulate_row(st, row, timestamp) ==
  LET n == row_numbers(row)
      user == Get(row, "User", "")
      model == Get(row, "Model", "unknown")
      day == DateOf(timestamp)
  IN [AddRow(st, n) EXCEPT
        !.active_days = @ \cup {day},
        !.users = @ \cup {user},
        !.by_model = Upd(@, model, ZeroCsvBucket, LAMBDA b : AddRow(b, n)),
        !.by_user = Upd(@, user, ZeroCsvBucket, LAMBDA b : AddRow(b, n)),
        !.by_day = Upd(@, day, ZeroCsvDayBucket, LAMBDA b : AddRowDay(b, n))]

\* Seeded fault: an errored row is accumulated like a billable one.
classify_row_errored_billable(st, row, timestamp) ==
  LET kind == Get(row, "Kind", <<>>)
  IN IF Contains(kind, "Errored") \/ Contains(kind, "No Charge")
     THEN [accumulate_row(st, row, timestamp) EXCEPT !.errored_records = @ + 1]
     ELSE accumulate_row(st, row, timestamp)

\* The kind check: an errored or no-charge row only counts as errored.
classify_row(st, row, timestamp) ==
  LET kind == Get(row, "Kind", <<>>)
  IN IF Contains(kind, "Errored") \/ Contains(kind, "No Charge")
     THEN [st EXCEPT !.errored_records = @ + 1]
     ELSE accumulate_row(st, row, timestamp)

\* Seeded fault: the kind check comes before the user filter, so errored
\* rows of every user are counted.
analyze_row_kind_before_filter(s, row, sd, ed, user_filter) ==
  LET date_str == Get(row, "Date", TsNone)
      parsed == parse_timestamp(date_str)
      user == Get(row, "User", "")
      kind == Get(row, "Kind", <<>>)
  IN IF date_str.form = "none" THEN s
     ELSE IF ~parsed.ok
       THEN (IF parsed.err = "ValueError" THEN s
             ELSE [s EXCEPT !.raised = TRUE])
     ELSE IF ~in_window(parsed, sd, ed) THEN s
     ELSE IF Contains(kind, "Errored") \/ Contains(kind, "No Charge")
       THEN [s EXCEPT !.stats.errored_records = @ + 1]
     ELSE IF user_filter # "" /\ user # user_filter THEN s
     ELSE [s EXCEPT !.stats = accumulate_row(@, row, parsed)]

\* One iteration of the loop over the rows.  s = [stats, raised].
analyze_row(s, row, sd, ed, user_filter) ==
  LET date_str == Get(row, "Date", TsNone)
      parsed == parse_timestamp(date_str)
      user == Get(row, "User", "")
  IN IF date_str.form = "none" THEN s
     ELSE IF ~parsed.ok
       THEN (IF parsed.err = "ValueError" THEN s
             ELSE [s EXCEPT !.raised = TRUE])
     ELSE IF ~in_window(parsed, sd, ed) THEN s
     ELSE IF user_filter # "" /\ user # user_filter THEN s
     ELSE [s EXCEPT !.stats = classify_row(@, row, parsed)]

RECURSIVE analyze_rows(_, _, _, _, _)
analyze_rows(s, rows, sd, ed, user_filter) ==
  IF rows = <<>> \/ s.raised THEN s
  ELSE analyze_rows(analyze_row(s, Head(rows), sd, ed, user_filter),
                    Tail(rows), sd, ed, user_filter)

\* analyze_csv as a function of the rows, the window and the filter
\* (rows without a non-string Date: no exception leaves the loop).
analyze_csv(rows, sd, ed, user_filter) ==
  analyze_rows([stats |-> ZeroCsvStats, raised |-> FALSE],
               rows, sd, ed, user_filter).stats

\* ---- the analyzer as a state machine: one step per row
CsvIdle ==
  /\ csv_path = <<>>
  /\ target_user = ""
  /\ row_no = 0
  /\ csv_stats = ZeroCsvStats
  /\ csv_pc = "idle"

Tally1 ==
  [in_w |-> Num(F(120)), in_wo |-> Num(F(100)), cr |-> Num(F(30)),
   out |-> Num(F(50)), total |-> Num(F(300)), requests |-> Num(F(1))]
\* blank and malformed cells, and a weighted request count of 0.5
Tally2 ==
  [in_w |-> Num(F(200)), in_wo |-> Blank, cr |-> Junk,
   out |-> Num(F(80)), total |-> Num(F(500)), requests |-> Num(1)]

Row(ts, user, kind, model, tally) ==
  [Date |-> ts, User |-> user, Kind |-> kind, Model |-> model,
   Requests |-> tally.requests]
  @@ ("Input (w/ Cache Write)" :> tally.in_w)
  @@ ("Input (w/o Cache Write)" :> tally.in_wo)
  @@ ("Cache Read" :> tally.cr) @@ ("Output Tokens" :> tally.out)
  @@ ("Total Tokens" :> tally.total)

\* Rows of the classification inputs, for the window <<1, 2>>: billable,
\* errored and no-charge rows of two users, two models and two days, a
\* row outside the window and a row without Kind and Model columns.
KindRows ==
  { Row(w.ts, w.user, kind, w.model, w.tally) :
      w \in { [ts |-> TsZ(1), user |-> "alice", model |-> "g1", tally |-> Tally1],
              [ts |-> TsZ(2), user |-> "bob", model |-> "g2", tally |-> Tally2],
              [ts |-> TsZ(2), user |-> "alice", model |-> "g2", tally |-> Tally1] },
      kind \in { <<"On-Demand">>, <<"Errored">>, <<"No Charge">> } }
  \cup { Row(TsZ(0), "alice", <<"Errored", "No Charge">>, "g1", Tally1),
         [Date |-> TsZ(1), User |-> "bob"] @@ ("Total Tokens" :> Num(F(300))) }

\* Rows of the window inputs: a billable and an errored row at every
\* instant, written with "Z" and with a numeric offset.
WindowRows ==
  { Row(TsZ(t), "alice", <<"On-Demand">>, "g1", Tally1) : t \in 0..MaxTime }
  \cup { Row(TsOffset(t + 1, 1), "bob", <<"Errored">>, "g2", Tally2) :
           t \in 0..MaxTime }

CsvInit ==
  /\ \/ /\ start_date = 1 /\ end_date = 2
        /\ csv_path \in SeqsUpTo(KindRows, MaxRows)
        /\ target_user \in {"", "alice"}
     \/ /\ \E w \in Windows : start_date = w[1] /\ end_date = w[2]
        /\ csv_path \in SeqsUpTo(WindowRows, MaxWinLines)
        /\ target_user = ""
  /\ row_no = 0
  /\ csv_stats = ZeroCsvStats
  /\ csv_pc = "scan"

\* One iteration of `for row in reader`.
CsvRow ==
  /\ csv_pc = "scan"
  /\ row_no < Len(csv_path)
  /\ LET s == analyze_row([stats |-> csv_stats, raised |-> FALSE],
                          csv_path[row_no + 1], start_date, end_date,
                          target_user)
     IN /\ csv_stats' = s.stats
        /\ csv_pc' = IF s.raised THEN "raised" ELSE "scan"
  /\ row_no' = row_no + 1
  /\ UNCHANGED <<start_date, end_date, csv_path, target_user>>
  /\ UNCHANGED not_csv_vars

\* The loop is over: return stats.
CsvReturn ==
  /\ csv_pc = "scan"
  /\ row_no = Len(csv_path)
  /\ csv_pc' = "returned"
  /\ UNCHANGED <<start_date, end_date, csv_path, target_user, row_no,
                 csv_stats>>
  /\ UNCHANGED not_csv_vars

CsvNext == CsvRow \/ CsvReturn

\* ------------------------------------------------- Event-Log Collector
\* Bound on the number of session entries over all projects.
MaxSessions == 2

ZeroProjectStats ==
  [input_tokens |-> 0, output_tokens |-> 0,
   cache_creation_input_tokens |-> 0, cache_read_input_tokens |-> 0,
   sessions |-> 0, user_messages |-> 0, assistant_messages |-> 0,
   tool_calls |-> 0]

ZeroDayTotals ==
  [input_tokens |-> 0, output_tokens |-> 0,
   cache_creation_input_tokens |-> 0, cache_read_input_tokens |-> 0,
   total_tokens_with_cache |-> 0]

\* The result collect_stats starts from.  The metadata keeps the window;
\* generated_at, username and machine are left out.
InitialCollect(sd, ed) ==
  [metadata |-> [start_date |-> sd, end_date |-> ed],
   summary |->
     [total_input_tokens |-> 0, total_output_tokens |-> 0,
      total_cache_creation_tokens |-> 0, total_cache_read_tokens |-> 0,
      total_tokens |-> 0, total_sessions |-> 0, total_user_messages |-> 0,
      total_assistant_messages |-> 0, total_tool_calls |-> 0,
      active_days |-> {}, active_projects |-> {}],
   by_model |-> EmptyDict,
   by_project |-> EmptyDict,
   by_day |-> EmptyDict]

\* The session pre-filter on created and modified: "skip", "scan", or
\* "raise" when parse_timestamp raises something other than ValueError
\* and TypeError.
prefilter(entry, sd, ed) ==
  LET created == Get(entry, "created", TsNone)
      modified == Get(entry, "modified", TsNone)
      created_dt == parse_timestamp(created)
      modified_dt == parse_timestamp(modified)
  IN IF created.form # "none" /\ ~created_dt.ok
        /\ created_dt.err = "AttributeError" THEN "raise"
     ELSE IF created.form # "none" /\ created_dt.ok
             /\ Instant(created_dt) > ed THEN "skip"
     ELSE IF modified.form # "none" /\ ~modified_dt.ok
             /\ modified_dt.err = "AttributeError" THEN "raise"
     ELSE IF modified.form # "none" /\ modified_dt.ok
             /\ Instant(modified_dt) < sd THEN "skip"
     ELSE "scan"

\* An active session: counted, its project marked active, and the day of
\* its created stamp added to active_days.
count_session(summary, project_name, entry) ==
  LET created == Get(entry, "created", TsNone)
      created_dt == parse_timestamp(created)
  IN [summary EXCEPT
        !.total_sessions = @ + 1,
        !.active_projects = @ \cup {project_name},
        !.active_days =
          IF created.form # "none" /\ created_dt.ok
          THEN @ \cup {DateOf(created_dt)} ELSE @]

\* for model, model_stats in session_stats["models_used"].items()
fold_by_model(by_model, models_used) ==
  [m \in DOMAIN by_model \cup DOMAIN models_used |->
     IF m \notin DOMAIN models_used THEN by_model[m]
     ELSE LET old == IF m \in DOMAIN by_model THEN by_model[m] ELSE ZeroBucket
          IN [k \in DOMAIN ZeroBucket |-> old[k] + models_used[m][k]]]

\* for day, day_stats in session_stats["by_day"].items(): the four token
\* fields are summed and their sum is added to total_tokens_with_cache.
fold_by_day(by_day, session_by_day) ==
  [d \in DOMAIN by_day \cup DOMAIN session_by_day |->
     IF d \notin DOMAIN session_by_day THEN by_day[d]
     ELSE LET old == IF d \in DOMAIN by_day THEN by_day[d] ELSE ZeroDayTotals
              new == session_by_day[d]
              day_total == new.input_tokens + new.output_tokens
                           + new.cache_creation_input_tokens
                           + new.cache_read_input_tokens
          IN [input_tokens |-> old.input_tokens + new.input_tokens,
              output_tokens |-> old.output_tokens + new.output_tokens,
              cache_creation_input_tokens |->
                old.cache_creation_input_tokens
                + new.cache_creation_input_tokens,
              cache_read_input_tokens |->
                old.cache_read_input_tokens + new.cache_read_input_tokens,
              total_tokens_with_cache |->
                old.total_tokens_with_cache + day_total]]

\* for key in [...]: project_stats[key] += session_stats[key]
add_session(pstats, session_stats) ==
  [pstats EXCEPT
     !.input_tokens = @ + session_stats.input_tokens,
     !.output_tokens = @ + session_stats.output_tokens,
     !.cache_creation_input_tokens =
       @ + session_stats.cache_creation_input_tokens,
     !.cache_read_input_tokens = @ + session_stats.cache_read_input_tokens,
     !.user_messages = @ + session_stats.user_messages,
     !.assistant_messages = @ + session_stats.assistant_messages,
     !.tool_calls = @ + session_stats.tool_calls]

\* The part of an iteration after the pre-filter: the session file is
\* analysed and its aggregate folded into the result.
scan_session(acc, project_name, entry, sd, ed) ==
  LET session_stats == analyze_jsonl_file(entry.file, sd, ed)
      active == session_stats.input_tokens > 0
                \/ session_stats.user_messages > 0
      counted == IF active
                 THEN count_session(acc.result.summary, project_name, entry)
                 ELSE acc.result.summary
      pstats == IF active
                THEN [acc.project_stats EXCEPT !.sessions = @ + 1]
                ELSE acc.project_stats
  IN [result |->
        [acc.result EXCEPT
           !.summary =
             [counted EXCEPT
                !.active_days = @ \cup DOMAIN session_stats.by_day],
           !.by_model = fold_by_model(@, session_stats.models_used),
           !.by_day = fold_by_day(@, session_stats.by_day)],
      project_stats |-> add_session(pstats, session_stats),
      raised |-> FALSE]

\* One iteration of `for entry in sessions_index.get("entries", [])`.
\* acc is [result, project_stats, raised].
collect_entry(acc, project_name, entry, sd, ed) ==
  IF Get(entry, "sessionId", "") = "" THEN acc
  ELSE IF prefilter(entry, sd, ed) = "raise"
       THEN [acc EXCEPT !.raised = TRUE]
  ELSE IF prefilter(entry, sd, ed) = "skip" THEN acc
  ELSE scan_session(acc, project_name, entry, sd, ed)

\* After the sessions of one project: its tally is added to the summary
\* and the project is listed when it had an active session.
close_project(res, project_name, pstats) ==
  [res EXCEPT
     !.summary =
       [@ EXCEPT
          !.total_input_tokens = @ + pstats.input_tokens,
          !.total_output_tokens = @ + pstats.output_tokens,
          !.total_cache_creation_tokens =
            @ + pstats.cache_creation_input_tokens,
          !.total_cache_read_tokens = @ + pstats.cache_read_input_tokens,
          !.total_user_messages = @ + pstats.user_messages,
          !.total_assistant_messages = @ + pstats.assistant_messages,
          !.total_tool_calls = @ + pstats.tool_calls],
     !.by_project =
       IF pstats.sessions > 0
       THEN [p \in DOMAIN @ \cup {project_name} |->
               IF p = project_name THEN pstats ELSE @[p]]
       ELSE @]

\* Seeded fault: the comparable total leaves the cache-creation tokens out.
finish_summary_without_cache_creation(summary) ==
  [k \in DOMAIN summary \cup {"total_tokens_with_cache"} |->
     IF k = "total_tokens"
       THEN summary.total_input_tokens + summary.total_output_tokens
     ELSE IF k = "total_tokens_with_cache"
       THEN summary.total_input_tokens + summary.total_output_tokens
            + summary.total_cache_read_tokens
     ELSE IF k \in {"active_days", "active_projects"}
       THEN Cardinality(summary[k])
     ELSE summary[k]]

\* The two totals are computed from the summed fields and the two sets are
\* replaced by their sizes.
finish_summary(summary) ==
  [k \in DOMAIN summary \cup {"total_tokens_with_cache"} |->
     IF k = "total_tokens"
       THEN summary.total_input_tokens + summary.total_output_tokens
     ELSE IF k = "total_tokens_with_cache"
       THEN summary.total_input_tokens + summary.total_output_tokens
            + summary.total_cache_read_tokens
            + summary.total_cache_creation_tokens
     ELSE IF k \in {"active_days", "active_projects"}
       THEN Cardinality(summary[k])
     ELSE summary[k]]

RECURSIVE collect_entries(_, _, _, _, _)
collect_entries(acc, project_name, entries, sd, ed) ==
  IF entries = <<>> \/ acc.raised THEN acc
  ELSE collect_entries(collect_entry(acc, project_name, Head(entries), sd, ed),
                       project_name, Tail(entries), sd, ed)

RECURSIVE collect_projects(_, _, _, _)
collect_projects(res, dirs, sd, ed) ==
  IF dirs = <<>> THEN res
  ELSE LET acc == collect_entries([result |-> res,
                                   project_stats |-> ZeroProjectStats,
                                   raised |-> FALSE],
                                  Head(dirs).name, Head(dirs).entries, sd, ed)
       IN collect_projects(close_project(acc.result, Head(dirs).name,
                                         acc.project_stats),
                           Tail(dirs), sd, ed)

\* collect_stats of claude_code_stats.py over the given project
\* directories (for inputs on which no exception escapes).
claude_collect_stats(dirs, sd, ed) ==
  LET res == collect_projects(InitialCollect(sd, ed), dirs, sd, ed)
  IN [res EXCEPT !.summary = finish_summary(@)]

\* ---- the machine
ClaudeCollectIdle ==
  /\ project_dirs = <<>>
  /\ project_no = 0
  /\ entry_no = 0
  /\ project_stats = ZeroProjectStats
  /\ cc_result = InitialCollect(0, 0)
  /\ cc_pc = "idle"

SessionFile(lines) == [exists |-> TRUE, readable |-> TRUE, lines |-> lines]
UsageAt2(model, usage, rid) ==
  RecordLine(Assistant([ts |-> TsZ(2),
                        message |-> [model |-> model, usage |-> usage]], rid))
UsageAt1(model, usage, rid) ==
  RecordLine(Assistant([ts |-> TsZ(1),
                        message |-> [model |-> model, usage |-> usage]], rid))

\* Session index entries for the window <<1, 2>>: sessions with disjoint
\* and with overlapping day and model keys, one whose request id also
\* occurs in another session, a session with a user message only, created
\* on a day without usage, sessions the pre-filter skips, an entry without
\* sessionId, an entry whose stamps do not parse, one without a file, and
\* one whose file cannot be opened, one whose only record has usage
\* without fresh input tokens, two sessions that lie wholly after and
\* wholly before the window, and one whose modified value is a number.
SessionEntries ==
  { [sessionId |-> "s1", created |-> TsZ(1), modified |-> TsZ(2),
     file |-> SessionFile(<<UsageAt1("m1", Usage1, "r1")>>)],
    [sessionId |-> "s2", created |-> TsZ(2), modified |-> TsZ(2),
     file |-> SessionFile(<<UsageAt2("m2", Usage2, ""),
                            RecordLine(UserText(TsZ(2)))>>)],
    [sessionId |-> "s3",
     file |-> SessionFile(<<UsageAt2("m1", Usage1, "r1")>>)],
    [sessionId |-> "s4", created |-> TsZ(3), modified |-> TsZ(3),
     file |-> SessionFile(<<UsageAt2("m2", Usage2, "")>>)],
    [created |-> TsZ(1), modified |-> TsZ(2),
     file |-> SessionFile(<<UsageAt1("m1", Usage1, "")>>)],
    [sessionId |-> "s6", created |-> TsBad, modified |-> TsZ(0),
     file |-> SessionFile(<<UsageAt1("m2", Usage2, "")>>)],
    [sessionId |-> "s7", created |-> TsZ(0), modified |-> TsBad,
     file |-> [exists |-> FALSE, readable |-> FALSE, lines |-> <<>>]],
    [sessionId |-> "s8", created |-> TsZ(0), modified |-> TsZ(2),
     file |-> SessionFile(<<RecordLine(UserText(TsZ(2)))>>)],
    [sessionId |-> "s9", created |-> TsZ(1), modified |-> TsZ(2),
     file |-> [exists |-> TRUE, readable |-> FALSE,
               lines |-> <<UsageAt1("m1", Usage1, "")>>]],
    [sessionId |-> "s10", created |-> TsZ(1), modified |-> TsZ(2),
     file |-> SessionFile(<<UsageAt2("m2", Usage3, "")>>)],
    [sessionId |-> "s11", created |-> TsZ(3), modified |-> TsZ(3),
     file |-> SessionFile(<<RecordLine(Assistant(
                [ts |-> TsZ(3),
                 message |-> [model |-> "m1", usage |-> Usage1]], ""))>>)],
    [sessionId |-> "s12", created |-> TsZ(0), modified |-> TsZ(0),
     file |-> SessionFile(<<RecordLine(UserText(TsZ(0)))>>)],
    [sessionId |-> "s13", created |-> TsZ(1), modified |-> TsNonStr,
     file |-> SessionFile(<<RecordLine(UserText(TsZ(1)))>>)] }

ProjectNames == <<"p1", "p2">>

\* The project directories holding the given (project, entry) pairs; the
\* empty list stands for a missing projects directory.
Layout(placed) ==
  [i \in 1..Len(ProjectNames) |->
     [name |-> ProjectNames[i],
      entries |->
        LET mine == SelectSeq(placed, LAMBDA pe : pe[1] = ProjectNames[i])
        IN [j \in 1..Len(mine) |-> mine[j][2]]]]

ClaudeCollectInit ==
  /\ start_date = 1 /\ end_date = 2
  /\ project_dirs \in
       { Layout(placed) :
           placed \in SeqsUpTo({"p1", "p2"} \X SessionEntries, MaxSessions) }
       \cup {<<>>}
  /\ project_no = 0
  /\ entry_no = 0
  /\ project_stats = ZeroProjectStats
  /\ cc_result = InitialCollect(1, 2)
  /\ cc_pc = "sessions"

\* One iteration of the loop over the session entries of a project.
CollectSession ==
  /\ cc_pc = "sessions"
  /\ project_no < Len(project_dirs)
  /\ entry_no < Len(project_dirs[project_no + 1].entries)
  /\ LET dir == project_dirs[project_no + 1]
         acc == collect_entry([result |-> cc_result,
                               project_stats |-> project_stats,
                               raised |-> FALSE],
                              dir.name, dir.entries[entry_no + 1],
                              start_date, end_date)
     IN /\ cc_result' = acc.result
        /\ project_stats' = acc.project_stats
        /\ cc_pc' = IF acc.raised THEN "raised" ELSE "sessions"
  /\ entry_no' = entry_no + 1
  /\ UNCHANGED <<start_date, end_date, project_dirs, project_no>>
  /\ UNCHANGED not_cc_vars

\* The sessions of the project are done: add its tally to the summary.
CollectProject ==
  /\ cc_pc = "sessions"
  /\ project_no < Len(project_dirs)
  /\ entry_no = Len(project_dirs[project_no + 1].entries)
  /\ cc_result' = close_project(cc_result, project_dirs[project_no + 1].name,
                                project_stats)
  /\ project_stats' = IF project_no + 1 < Len(project_dirs)
                      THEN ZeroProjectStats ELSE project_stats
  /\ project_no' = project_no + 1
  /\ entry_no' = 0
  /\ UNCHANGED <<start_date, end_date, project_dirs, cc_pc>>
  /\ UNCHANGED not_cc_vars

\* All projects are done: compute the totals and return.
CollectReturn ==
  /\ cc_pc = "sessions"
  /\ project_no = Len(project_dirs)
  /\ cc_result' = [cc_result EXCEPT !.summary = finish_summary(@)]
  /\ cc_pc' = "returned"
  /\ UNCHANGED <<start_date, end_date, project_dirs, project_no, entry_no,
                 project_stats>>
  /\ UNCHANGED not_cc_vars

ClaudeCollectNext == CollectSession \/ CollectProject \/ CollectReturn

\* --------------------------------------------------- Tabular Collector
\* Bound on the number of exports given to the tabular collect_stats.
MaxCsvFiles == 2

\* The result collect_stats starts from.  The metadata keeps the window
\* and the source; generated_at, username, machine and csv_files are left
\* out.
InitialCursorCollect(sd, ed) ==
  [metadata |-> [start_date |-> sd, end_date |-> ed, source |-> "cursor"],
   summary |->
     [input_tokens_with_cache |-> 0, input_tokens_without_cache |-> 0,
      cache_read_tokens |-> 0, output_tokens |-> 0, total_tokens |-> 0,
      requests |-> 0, records |-> 0, errored_records |-> 0,
      active_days |-> 0, users_count |-> 0],
   by_model |-> EmptyDict, by_user |-> EmptyDict, by_day |-> EmptyDict]

\* all_active_days, all_users and the three combined_by_ dicts
InitialCombined ==
  [active_days |-> {}, users |-> {},
   by_model |-> EmptyDict, by_user |-> EmptyDict, by_day |-> EmptyDict]

\* for k, k_stats in stats[...].items():
\*     for key in k_stats: combined_by[k][key] += k_stats[key]
fold_buckets(combined_by, part, zero) ==
  [k \in DOMAIN combined_by \cup DOMAIN part |->
     IF k \notin DOMAIN part THEN combined_by[k]
     ELSE LET old == IF k \in DOMAIN combined_by THEN combined_by[k] ELSE zero
          IN [f \in DOMAIN zero |-> old[f] + part[k][f]]]

\* One iteration of `for csv_file in csv_files`, after analyze_csv.
\* acc is [result, combined].
fold_csv(acc, file_stats) ==
  [result |->
     [acc.result EXCEPT
        !.summary =
          [@ EXCEPT
             !.input_tokens_with_cache = @ + file_stats.input_tokens_with_cache,
             !.input_tokens_without_cache =
               @ + file_stats.input_tokens_without_cache,
             !.cache_read_tokens = @ + file_stats.cache_read_tokens,
             !.output_tokens = @ + file_stats.output_tokens,
             !.total_tokens = @ + file_stats.total_tokens,
             !.requests = @ + file_stats.requests,
             !.records = @ + file_stats.records,
             !.errored_records = @ + file_stats.errored_records]],
   combined |->
     [active_days |-> acc.combined.active_days \cup file_stats.active_days,
      users |-> acc.combined.users \cup file_stats.users,
      by_model |->
        fold_buckets(acc.combined.by_model, file_stats.by_model, ZeroCsvBucket),
      by_user |->
        fold_buckets(acc.combined.by_user, file_stats.by_user, ZeroCsvBucket),
      by_day |->
        fold_buckets(acc.combined.by_day, file_stats.by_day, ZeroCsvDayBucket)]]

\* The set sizes and the combined dicts are stored into the result.
finish_cursor_collect(res, comb) ==
  [res EXCEPT
     !.summary = [@ EXCEPT !.active_days = Cardinality(comb.active_days),
                           !.users_count = Cardinality(comb.users)],
     !.by_model = comb.by_model,
     !.by_user = comb.by_user,
     !.by_day = comb.by_day]

RECURSIVE fold_csv_files(_, _, _, _, _)
fold_csv_files(acc, files, sd, ed, user_filter) ==
  IF files = <<>> THEN acc
  ELSE fold_csv_files(fold_csv(acc, analyze_csv(Head(files), sd, ed, user_filter)),
                      Tail(files), sd, ed, user_filter)

\* collect_stats of cursor_stats.py (for exports on which analyze_csv
\* raises nothing).
cursor_collect_stats(files, sd, ed, user_filter) ==
  LET acc == fold_csv_files([result |-> InitialCursorCollect(sd, ed),
                             combined |-> InitialCombined],
                            files, sd, ed, user_filter)
  IN finish_cursor_collect(acc.result, acc.combined)

\* ---- the machine
CursorCollectIdle ==
  /\ csv_files = <<>>
  /\ csv_file_no = 0
  /\ cu_result = InitialCursorCollect(0, 0)
  /\ combined = InitialCombined
  /\ cu_pc = "idle"

\* Exports for the window <<1, 2>>: two with disjoint day, model and user
\* keys, one that overlaps both and holds an errored row, an empty one and
\* one whose only row lies outside the window.
Exports ==
  { <<Row(TsZ(1), "alice", <<"On-Demand">>, "g1", Tally1)>>,
    <<Row(TsZ(2), "bob", <<"On-Demand">>, "g2", Tally2)>>,
    <<Row(TsZ(2), "alice", <<"On-Demand">>, "g1", Tally1),
      Row(TsZ(2), "bob", <<"Errored">>, "g2", Tally2)>>,
    <<>>,
    <<Row(TsZ(0), "bob", <<"On-Demand">>, "g1", Tally1)>> }

CursorCollectInit ==
  /\ start_date = 1 /\ end_date = 2
  /\ csv_files \in SeqsUpTo(Exports, MaxCsvFiles)
  /\ target_user \in {"", "alice"}
  /\ csv_path = <<>> /\ row_no = 0 /\ csv_stats = ZeroCsvStats
  /\ csv_pc = "idle"
  /\ csv_file_no = 0
  /\ cu_result = InitialCursorCollect(1, 2)
  /\ combined = InitialCombined
  /\ cu_pc = "files"

\* One iteration of `for csv_file in csv_files`: analyze_csv and the fold.
CollectCsvFile ==
  /\ cu_pc = "files"
  /\ csv_file_no < Len(csv_files)
  /\ LET s == analyze_rows([stats |-> ZeroCsvStats, raised |-> FALSE],
                           csv_files[csv_file_no + 1], start_date, end_date,
                           target_user)
         acc == fold_csv([result |-> cu_result, combined |-> combined],
                         s.stats)
     IN IF s.raised
        THEN cu_pc' = "raised" /\ UNCHANGED <<cu_result, combined>>
        ELSE /\ cu_result' = acc.result
             /\ combined' = acc.combined
             /\ cu_pc' = "files"
  /\ csv_file_no' = csv_file_no + 1
  /\ UNCHANGED <<start_date, end_date, csv_files, target_user>>
  /\ UNCHANGED <<jl_vars, csv_path, row_no, csv_stats, csv_pc, cc_vars,
                 mg_vars, rp_vars, cli_vars>>

\* The loop is over: store the sizes and the combined dicts, return.
CursorCollectReturn ==
  /\ cu_pc = "files"
  /\ csv_file_no = Len(csv_files)
  /\ cu_result' = finish_cursor_collect(cu_result, combined)
  /\ cu_pc' = "returned"
  /\ UNCHANGED <<start_date, end_date, csv_files, target_user, csv_file_no,
                 combined>>
  /\ UNCHANGED <<jl_vars, csv_path, row_no, csv_stats, csv_pc, cc_vars,
                 mg_vars, rp_vars, cli_vars>>

CursorCollectNext == CollectCsvFile \/ CursorCollectReturn

\* ------------------------------------------------------------ Team Merge
\* Bound on the number of artifact files given to merge_stats.
MaxFiles == 2

\* Python's None, where a field holds None or a dict.
None == [none |-> TRUE]

\* A str: [text |-> the sequence of its characters]; Str(<<>>) is "".
\* The characters of a date are numbers, ordered as the digits are.
Str(chars) == [text |-> chars]

RECURSIVE StrLess(_, _)
\* a < b on two strings: the first differing character decides, and a
\* proper prefix is smaller.
StrLess(a, b) ==
  IF b.text = <<>> THEN FALSE
  ELSE IF a.text = <<>> THEN TRUE
  ELSE IF Head(a.text) # Head(b.text) THEN Head(a.text) < Head(b.text)
  ELSE StrLess(Str(Tail(a.text)), Str(Tail(b.text)))

\* bool(x) for x a string or None
Truthy(x) == x # None /\ x # Str(<<>>)

\* The Team Summary merge_stats starts from.  The event-log tallies are
\* ints; the tabular tallies and combined.total_tokens are floats, counted
\* in halves.
InitialResult(now) ==
  [metadata |-> [generated_at |-> now, total_members |-> 0, sources |-> <<>>],
   team_summary |->
     [claude_code |->
        [total_input_tokens |-> 0, total_output_tokens |-> 0,
         total_cache_creation_tokens |-> 0, total_cache_read_tokens |-> 0,
         total_tokens |-> 0, total_tokens_with_cache |-> 0,
         total_sessions |-> 0, total_user_messages |-> 0, members |-> 0],
      cursor |->
        [total_input_tokens_with_cache |-> 0,
         total_input_tokens_without_cache |-> 0,
         total_cache_read_tokens |-> 0, total_output_tokens |-> 0,
         total_tokens |-> 0, total_requests |-> 0, total_records |-> 0,
         members |-> 0],
      combined |->
        [total_tokens |-> 0, total_input_tokens |-> 0,
         total_output_tokens |-> 0]],
   by_member |-> EmptyDict,
   by_tool |-> [claude_code |-> <<>>, cursor |-> <<>>],
   date_range |-> [start |-> None, end |-> None]]

\* Seeded fault: the later start and the earlier end are kept.
update_date_range_intersection(date_range, metadata) ==
  LET sd == Get(metadata, "start_date", None)
      ed == Get(metadata, "end_date", None)
  IN [start |-> IF Truthy(sd) /\ (~Truthy(date_range.start)
                                  \/ StrLess(date_range.start, sd))
                THEN sd ELSE date_range.start,
      end |-> IF Truthy(ed) /\ (~Truthy(date_range.end)
                                \/ StrLess(ed, date_range.end))
              THEN ed ELSE date_range.end]

\* The date range after one more artifact.
update_date_range(date_range, metadata) ==
  LET sd == Get(metadata, "start_date", None)
      ed == Get(metadata, "end_date", None)
  IN [start |-> IF Truthy(sd) /\ (~Truthy(date_range.start)
                                  \/ StrLess(sd, date_range.start))
                THEN sd ELSE date_range.start,
      end |-> IF Truthy(ed) /\ (~Truthy(date_range.end)
                                \/ StrLess(date_range.end, ed))
              THEN ed ELSE date_range.end]

\* result["by_member"][username]["cursor"] = {...}
cursor_member(summary) ==
  [input_tokens |-> PyInt(Get(summary, "input_tokens_with_cache", 0)),
   output_tokens |-> PyInt(Get(summary, "output_tokens", 0)),
   total_tokens |-> PyInt(Get(summary, "total_tokens", 0)),
   requests |-> Get(summary, "requests", 0),
   records |-> Get(summary, "records", 0),
   active_days |-> Get(summary, "active_days", 0)]

\* result["by_member"][username]["claude_code"] = {...}
claude_member(summary) ==
  [input_tokens |-> Get(summary, "total_input_tokens", 0),
   output_tokens |-> Get(summary, "total_output_tokens", 0),
   total_tokens |-> Get(summary, "total_tokens", 0),
   total_tokens_with_cache |-> Get(summary, "total_tokens_with_cache", 0),
   sessions |-> Get(summary, "total_sessions", 0),
   user_messages |-> Get(summary, "total_user_messages", 0),
   active_days |-> Get(summary, "active_days", 0),
   active_projects |-> Get(summary, "active_projects", 0)]

\* The tabular team totals after one more tabular artifact.
add_cursor(team, summary) ==
  [team EXCEPT
     !.total_input_tokens_with_cache =
       @ + Get(summary, "input_tokens_with_cache", 0),
     !.total_input_tokens_without_cache =
       @ + Get(summary, "input_tokens_without_cache", 0),
     !.total_cache_read_tokens = @ + Get(summary, "cache_read_tokens", 0),
     !.total_output_tokens = @ + Get(summary, "output_tokens", 0),
     !.total_tokens = @ + Get(summary, "total_tokens", 0),
     !.total_requests = @ + Get(summary, "requests", 0),
     !.total_records = @ + Get(summary, "records", 0)]

\* The event-log team totals after one more event-log artifact.
add_claude(team, summary) ==
  [team EXCEPT
     !.total_input_tokens = @ + Get(summary, "total_input_tokens", 0),
     !.total_output_tokens = @ + Get(summary, "total_output_tokens", 0),
     !.total_cache_creation_tokens =
       @ + Get(summary, "total_cache_creation_tokens", 0),
     !.total_cache_read_tokens =
       @ + Get(summary, "total_cache_read_tokens", 0),
     !.total_tokens = @ + Get(summary, "total_tokens", 0),
     !.total_tokens_with_cache =
       @ + Get(summary, "total_tokens_with_cache", 0),
     !.total_sessions = @ + Get(summary, "total_sessions", 0),
     !.total_user_messages = @ + Get(summary, "total_user_messages", 0)]

\* Seeded fault: a file that does not load is taken as an empty artifact.
load_stats_file_lenient(file) == [ok |-> TRUE, stats |-> file.stats]

\* json.load of the file: the dict, or the exception of an unreadable file
\* or of invalid JSON.
load_stats_file(file) ==
  IF file.loadable THEN [ok |-> TRUE, stats |-> file.stats]
  ELSE [ok |-> FALSE, err |-> "Exception"]

\* Seeded fault: an artifact whose total is zero leaves the side as it was.
member_entry_zero_absent(old, source, summary) ==
  IF source = "cursor"
  THEN IF Get(summary, "total_tokens", 0) = 0 THEN old
       ELSE [old EXCEPT !.cursor = cursor_member(summary)]
  ELSE IF Get(summary, "total_tokens", 0) = 0 THEN old
       ELSE [old EXCEPT !.claude_code = claude_member(summary)]

\* Seeded fault: a second artifact for the same side adds its total to the
\* one already there.
member_entry_summed(old, source, summary) ==
  IF source = "cursor"
  THEN [old EXCEPT !.cursor =
          IF @ = None THEN cursor_member(summary)
          ELSE [cursor_member(summary) EXCEPT
                  !.total_tokens = @ + old.cursor.total_tokens]]
  ELSE [old EXCEPT !.claude_code =
          IF @ = None THEN claude_member(summary)
          ELSE [claude_member(summary) EXCEPT
                  !.total_tokens = @ + old.claude_code.total_tokens]]

\* by_member[username]["cursor"] = {...} or ["claude_code"] = {...}: the
\* side of the artifact's tool is assigned, the other side is kept.
member_entry(old, source, summary) ==
  IF source = "cursor"
  THEN [old EXCEPT !.cursor = cursor_member(summary)]
  ELSE [old EXCEPT !.claude_code = claude_member(summary)]

\* One iteration of `for file_path in stats_files`.
\* acc is [result, members, claude_members, cursor_members].
merge_file(acc, file) ==
  IF ~load_stats_file(file).ok THEN acc
  ELSE
    LET loaded == load_stats_file(file).stats
        metadata == Get(loaded, "metadata", EmptyDict)
        summary == Get(loaded, "summary", EmptyDict)
        source == Get(metadata, "source", "claude_code")
        username == Get(metadata, "username", file.stem)
        res == acc.result
        old == IF username \in DOMAIN res.by_member
               THEN res.by_member[username]
               ELSE [claude_code |-> None, cursor |-> None]
        entry == member_entry(old, source, summary)
    IN [result |->
          [metadata |->
             [res.metadata EXCEPT
                !.sources = Append(@, [file |-> file.path,
                                       username |-> username,
                                       source |-> source])],
           team_summary |->
             IF source = "cursor"
             THEN [res.team_summary EXCEPT !.cursor = add_cursor(@, summary)]
             ELSE [res.team_summary EXCEPT
                     !.claude_code = add_claude(@, summary)],
           by_member |->
             [u \in DOMAIN res.by_member \cup {username} |->
                IF u = username THEN entry ELSE res.by_member[u]],
           by_tool |->
             IF source = "cursor"
             THEN [res.by_tool EXCEPT
                     !.cursor =
                       Append(@, [username |-> username,
                                  total_tokens |->
                                    PyInt(Get(summary, "total_tokens", 0)),
                                  requests |-> Get(summary, "requests", 0)])]
             ELSE [res.by_tool EXCEPT
                     !.claude_code =
                       Append(@, [username |-> username,
                                  total_tokens |->
                                    Get(summary, "total_tokens", 0),
                                  sessions |->
                                    Get(summary, "total_sessions", 0)])],
           date_range |-> update_date_range(res.date_range, metadata)],
        members |-> acc.members \cup {username},
        claude_members |->
          IF source = "cursor" THEN acc.claude_members
          ELSE acc.claude_members \cup {username},
        cursor_members |->
          IF source = "cursor" THEN acc.cursor_members \cup {username}
          ELSE acc.cursor_members]

RECURSIVE InsertDesc(_, _)
\* x put behind every element whose total_tokens is not smaller.
InsertDesc(sorted, x) ==
  IF sorted = <<>> THEN <<x>>
  ELSE IF Head(sorted).total_tokens >= x.total_tokens
       THEN <<Head(sorted)>> \o InsertDesc(Tail(sorted), x)
       ELSE <<x>> \o sorted

RECURSIVE SortDesc(_)
\* list.sort(key=total_tokens, reverse=True): descending and stable, so
\* equal totals keep the order they were appended in.
SortDesc(list) ==
  IF list = <<>> THEN <<>>
  ELSE InsertDesc(SortDesc(SubSeq(list, 1, Len(list) - 1)), list[Len(list)])

\* Seeded fault: the combined total takes the API-only event-log total.
combined_totals_api_only(team) ==
  [total_tokens |-> F(team.claude_code.total_tokens) + team.cursor.total_tokens,
   total_input_tokens |->
     team.claude_code.total_input_tokens
     + PyInt(team.cursor.total_input_tokens_with_cache),
   total_output_tokens |->
     team.claude_code.total_output_tokens
     + PyInt(team.cursor.total_output_tokens)]

\* The combined totals: the cache-inclusive event-log total plus the
\* tabular total (a float), and the int sums of input and output.
combined_totals(team) ==
  [total_tokens |->
     F(Get(team.claude_code, "total_tokens_with_cache",
           team.claude_code.total_tokens))
     + team.cursor.total_tokens,
   total_input_tokens |->
     team.claude_code.total_input_tokens
     + PyInt(team.cursor.total_input_tokens_with_cache),
   total_output_tokens |->
     team.claude_code.total_output_tokens
     + PyInt(team.cursor.total_output_tokens)]

\* After the loop: the member counts, the combined totals and the sort.
finish_merge(acc) ==
  LET res == acc.result
      counted ==
        [res.team_summary EXCEPT
           !.claude_code.members = Cardinality(acc.claude_members),
           !.cursor.members = Cardinality(acc.cursor_members)]
  IN [res EXCEPT
        !.metadata.total_members = Cardinality(acc.members),
        !.team_summary = [counted EXCEPT !.combined = combined_totals(counted)],
        !.by_tool = [claude_code |-> SortDesc(@.claude_code),
                     cursor |-> SortDesc(@.cursor)]]

RECURSIVE merge_files(_, _)
merge_files(acc, files) ==
  IF files = <<>> THEN acc
  ELSE merge_files(merge_file(acc, Head(files)), Tail(files))

\* merge_stats as a function of the files and the clock reading.
merge_stats(files, now) ==
  finish_merge(merge_files([result |-> InitialResult(now), members |-> {},
                            claude_members |-> {}, cursor_members |-> {}],
                           files))

\* ---- the machine
MergeIdle ==
  /\ stats_files = <<>>
  /\ file_no = 0
  /\ result = InitialResult(0)
  /\ members = {}
  /\ claude_members = {}
  /\ cursor_members = {}
  /\ mg_pc = "idle"

\* A summary as the event-log collect_stats returns it.
CollectedSummary(input, output, cache_creation, cache_read, sessions, days) ==
  finish_summary(
    [total_input_tokens |-> input, total_output_tokens |-> output,
     total_cache_creation_tokens |-> cache_creation,
     total_cache_read_tokens |-> cache_read,
     total_tokens |-> 0, total_sessions |-> sessions,
     total_user_messages |-> sessions, total_assistant_messages |-> sessions,
     total_tool_calls |-> 0, active_days |-> days,
     active_projects |-> IF sessions > 0 THEN {"p1"} ELSE {}])

\* API total 900, comparable total 1000
ClaudeBig == CollectedSummary(600, 300, 60, 40, 3, {0, 1})
\* API total 150, comparable total 150
ClaudeSmall == CollectedSummary(100, 50, 0, 0, 1, {1})
ClaudeZero == CollectedSummary(0, 0, 0, 0, 0, {})
\* An event-log summary without the cache-inclusive total.
ClaudePartial ==
  [total_input_tokens |-> 100, total_output_tokens |-> 50,
   total_tokens |-> 150]

\* A summary as the tabular collect_stats returns it: total 400.0, input
\* 300.5, 1.5 requests.
CursorBig ==
  [input_tokens_with_cache |-> F(300) + 1,
   input_tokens_without_cache |-> F(250), cache_read_tokens |-> F(50),
   output_tokens |-> F(100), total_tokens |-> F(400), requests |-> 3,
   records |-> 2, errored_records |-> 1, active_days |-> 1,
   users_count |-> 1]
CursorZero == InitialCursorCollect(0, 0).summary

\* An artifact file: its path, the stem of its name, whether json.load
\* succeeds, and the loaded dict.
StatsFile(stem, loaded) ==
  [path |-> stem, stem |-> stem, loadable |-> TRUE, stats |-> loaded]

ClaudeStats(username, sd, ed, summary) ==
  [metadata |-> [username |-> username, start_date |-> Str(sd),
                 end_date |-> Str(ed)],
   summary |-> summary]

CursorStats(username, sd, ed, summary) ==
  [metadata |-> [username |-> username, source |-> "cursor",
                 start_date |-> Str(sd), end_date |-> Str(ed)],
   summary |-> summary]

\* The artifact files: two owners with equal event-log totals, a second
\* event-log artifact of one owner, tabular artifacts with equal totals and
\* one all zero without dates, a file that does not load, a file holding
\* {}, an artifact without the cache-inclusive total and with empty date
\* strings, and dates of differing length.
StatsFiles ==
  { StatsFile("f1", ClaudeStats("alice", <<0, 1>>, <<0, 3>>, ClaudeBig)),
    StatsFile("f2", ClaudeStats("bob", <<0, 2>>, <<0, 2, 5>>, ClaudeBig)),
    StatsFile("f3", ClaudeStats("alice", <<0, 1, 0>>, <<0, 4>>, ClaudeSmall)),
    StatsFile("f4", CursorStats("bob", <<0, 1>>, <<0, 3>>, CursorBig)),
    StatsFile("f5", [metadata |-> [username |-> "alice", source |-> "cursor"],
                     summary |-> CursorZero]),
    StatsFile("f6", CursorStats("carol", <<>>, <<>>, CursorBig)),
    [path |-> "f7", stem |-> "f7", loadable |-> FALSE, stats |-> EmptyDict],
    StatsFile("dave", EmptyDict),
    StatsFile("f9", ClaudeStats("bob", <<>>, <<>>, ClaudePartial)),
    StatsFile("f10", ClaudeStats("erin", <<0, 0>>, <<0, 0>>, ClaudeZero)) }

Clock == {0, 1}
NoReport == [path |-> "none"]

ReportIdle == data = None /\ report = NoReport

MergeInit ==
  /\ start_date = 0 /\ end_date = 0
  /\ stats_files \in SeqsUpTo(StatsFiles, MaxFiles)
  /\ file_no = 0
  /\ \E now \in Clock : result = InitialResult(now)
  /\ members = {}
  /\ claude_members = {}
  /\ cursor_members = {}
  /\ mg_pc = "files"
  /\ ReportIdle

\* One iteration of `for file_path in stats_files`.
MergeFile ==
  /\ mg_pc = "files"
  /\ file_no < Len(stats_files)
  /\ LET acc == merge_file([result |-> result, members |-> members,
                            claude_members |-> claude_members,
                            cursor_members |-> cursor_members],
                           stats_files[file_no + 1])
     IN /\ result' = acc.result
        /\ members' = acc.members
        /\ claude_members' = acc.claude_members
        /\ cursor_members' = acc.cursor_members
  /\ file_no' = file_no + 1
  /\ UNCHANGED <<start_date, end_date, stats_files, mg_pc, rp_vars>>
  /\ UNCHANGED not_mg_vars

\* The loop is over: member counts, combined totals, sort, return.
MergeFinish ==
  /\ mg_pc = "files"
  /\ file_no = Len(stats_files)
  /\ result' = finish_merge([result |-> result, members |-> members,
                             claude_members |-> claude_members,
                             cursor_members |-> cursor_members])
  /\ mg_pc' = "merged"
  /\ UNCHANGED <<start_date, end_date, stats_files, file_no, members,
                 claude_members, cursor_members, rp_vars>>
  /\ UNCHANGED not_mg_vars

MergeNext == MergeFile \/ MergeFinish

\* --------------------------------------------------------- report paths
\* cc_total / cu_total * 100 printed with one decimal: the percentage in
\* tenths (cu_total is a float counted in halves), ZeroDivisionError for a
\* zero denominator.
percent(cc_total, cu_total) ==
  IF cu_total = 0 THEN [kind |-> "ZeroDivisionError"]
  ELSE [kind |-> "percent",
        tenths |-> (4000 * cc_total + cu_total) \div (2 * cu_total)]

Sentinel == [kind |-> "sentinel"]
ZeroPercent == [kind |-> "zero"]
NoSection == [kind |-> "omitted"]

\* print_report: the migration line of the console team report.
print_report(merged) ==
  LET claude == merged.team_summary.claude_code
      cursor == merged.team_summary.cursor
      cc_comparable == Get(claude, "total_tokens_with_cache", claude.total_tokens)
  IN IF cursor.total_tokens > 0
     THEN percent(cc_comparable, cursor.total_tokens)
     ELSE NoSection

\* _generate_team_markdown: the migration section of the team report.
team_markdown(team_data) ==
  LET team == Get(team_data, "team_summary", EmptyDict)
      cc == Get(team, "claude_code", EmptyDict)
      cu == Get(team, "cursor", EmptyDict)
      cc_total == Get(cc, "total_tokens_with_cache", Get(cc, "total_tokens", 0))
      cu_total == Get(cu, "total_tokens", 0)
      has_cursor == cu_total > 0 \/ Get(cu, "members", 0) > 0
      migration_ratio_display ==
        IF cu_total > 0 THEN percent(cc_total, cu_total)
        ELSE IF cc_total > 0 THEN Sentinel
        ELSE ZeroPercent
  IN IF has_cursor THEN migration_ratio_display ELSE NoSection

\* _generate_personal_markdown: the migration section of the personal
\* report.  With a zero tabular total the ratio is the number 0, printed
\* as "0.0%".
personal_markdown(personal) ==
  LET cc == IF Get(personal, "claude_code", None) = None
            THEN EmptyDict ELSE personal.claude_code
      cu == IF Get(personal, "cursor", None) = None
            THEN EmptyDict ELSE personal.cursor
      cc_summary == Get(cc, "summary", EmptyDict)
      cu_summary == Get(cu, "summary", EmptyDict)
      cc_total == Get(cc_summary, "total_tokens_with_cache",
                      Get(cc_summary, "total_tokens", 0))
      cu_total == Get(cu_summary, "total_tokens", 0)
      has_cursor == DOMAIN cu_summary # {}
      migration_ratio ==
        IF cu_total > 0 THEN percent(cc_total, cu_total)
        ELSE [kind |-> "percent", tenths |-> 0]
  IN IF has_cursor THEN migration_ratio ELSE NoSection

\* The personal data: the artifacts of the two collectors, each possibly
\* missing.
PersonalData ==
  { [claude_code |-> cc, cursor |-> cu] :
      cc \in { None, [summary |-> ClaudeBig], [summary |-> ClaudeZero],
               [summary |-> ClaudePartial] },
      cu \in { None, [summary |-> CursorBig], [summary |-> CursorZero],
               [metadata |-> [source |-> "cursor"]] } }

PersonalInit ==
  /\ start_date = 0 /\ end_date = 0
  /\ MergeIdle
  /\ data \in PersonalData
  /\ report = NoReport

\* team_summary.py prints the report of the merged summary.
PrintReport ==
  /\ mg_pc = "merged"
  /\ report = NoReport
  /\ report' = [path |-> "print_report", migration |-> print_report(result)]
  /\ UNCHANGED <<start_date, end_date, mg_vars, data>>
  /\ UNCHANGED not_rp_vars

\* The service renders the merged summary as markdown.
TeamMarkdown ==
  /\ mg_pc = "merged"
  /\ report = NoReport
  /\ report' = [path |-> "team_markdown", migration |-> team_markdown(result)]
  /\ UNCHANGED <<start_date, end_date, mg_vars, data>>
  /\ UNCHANGED not_rp_vars

\* The service renders the personal data as markdown.
PersonalMarkdown ==
  /\ data # None
  /\ report = NoReport
  /\ report' = [path |-> "personal_markdown",
                migration |-> personal_markdown(data)]
  /\ UNCHANGED <<start_date, end_date, mg_vars, data>>
  /\ UNCHANGED not_rp_vars

ReportNext == PrintReport \/ TeamMarkdown \/ PersonalMarkdown

\* ------------------------------------------------- collector entry points
\* Bound: the calendar days the clock reading is drawn from, 0..MaxNowDay.
MaxNowDay == 7
\* date.weekday() counts from Monday; day 0 of the model is a Monday.
WeekLen == 7

\* A --start/--end value: a YYYY-MM-DD string of day d, a string strptime
\* rejects, or the empty string.  A --days value: an int.
DateArg(d) == [day |-> d]
BadDateArg == [bad |-> TRUE]
EmptyArg == Str(<<>>)
DaysArg(n) == [n |-> n]

\* bool(args.days)
TruthyInt(x) == x # None /\ x.n # 0

\* datetime.replace(hour=0, ...) and replace(hour=23, minute=59, ...)
StartOfDay(t) == (t \div DayLen) * DayLen
EndOfDay(t) == (t \div DayLen) * DayLen + DayLen - 1
Weekday(t) == (t \div DayLen) % WeekLen

\* strptime(s, "%Y-%m-%d").replace(tzinfo=utc)
strptime(s) ==
  IF "day" \in DOMAIN s THEN [ok |-> TRUE, t |-> s.day * DayLen]
  ELSE [ok |-> FALSE, err |-> "ValueError"]

\* The window main of claude_code_stats.py derives from its arguments.
claude_resolve_window(a, t) ==
  IF Truthy(a.start) /\ Truthy(a.end)
  THEN IF strptime(a.start).ok /\ strptime(a.end).ok
       THEN [branch |-> "explicit", start |-> strptime(a.start).t,
             end |-> EndOfDay(strptime(a.end).t)]
       ELSE [branch |-> "raised"]
  ELSE IF TruthyInt(a.days)
  THEN [branch |-> "days", start |-> StartOfDay(t - (a.days.n - 1) * DayLen),
        end |-> EndOfDay(t)]
  ELSE [branch |-> "week", start |-> StartOfDay(t - Weekday(t) * DayLen),
        end |-> EndOfDay(t)]

\* The window main of cursor_stats.py derives from its arguments.
cursor_resolve_window(a, t) ==
  IF Truthy(a.start) /\ Truthy(a.end)
  THEN IF strptime(a.start).ok /\ strptime(a.end).ok
       THEN [branch |-> "explicit", start |-> strptime(a.start).t,
             end |-> EndOfDay(strptime(a.end).t)]
       ELSE [branch |-> "raised"]
  ELSE IF TruthyInt(a.days)
  THEN [branch |-> "days", start |-> StartOfDay(t - (a.days.n - 1) * DayLen),
        end |-> EndOfDay(t)]
  ELSE [branch |-> "week", start |-> StartOfDay(t - Weekday(t) * DayLen),
        end |-> EndOfDay(t)]

\* The command line run_claude_code_stats builds from its parameters.
claude_cmd(req) ==
  IF Truthy(req.start) /\ Truthy(req.end)
  THEN [tool |-> "claude_code", start |-> req.start, end |-> req.end,
        days |-> None, week |-> FALSE]
  ELSE IF TruthyInt(req.days)
  THEN [tool |-> "claude_code", start |-> None, end |-> None,
        days |-> req.days, week |-> FALSE]
  ELSE [tool |-> "claude_code", start |-> None, end |-> None,
        days |-> None, week |-> TRUE]

\* The command line run_cursor_stats builds: the uploaded export is
\* written to a temporary file and named first.
cursor_cmd(req) ==
  IF Truthy(req.start) /\ Truthy(req.end)
  THEN [tool |-> "cursor", start |-> req.start, end |-> req.end,
        days |-> None, found |-> "files"]
  ELSE [tool |-> "cursor", start |-> None, end |-> None,
        days |-> None, found |-> "files"]

\* ---- the machine
CliIdle ==
  /\ request = None
  /\ args = None
  /\ utc_now = 0
  /\ cli_pc = "idle"

\* The date selectors given: none, a pair, one end only, a pair in the
\* wrong order, a pair with a malformed or an empty start.
DatePairs ==
  { <<None, None>>, <<DateArg(1), DateArg(2)>>, <<DateArg(1), None>>,
    <<None, DateArg(2)>>, <<DateArg(2), DateArg(1)>>,
    <<BadDateArg, DateArg(2)>>, <<EmptyArg, DateArg(2)>> }
DaysArgs == { None, DaysArg(0), DaysArg(1), DaysArg(3), DaysArg(0 - 1) }
\* What the positional arguments or --dir of cursor_stats.py match: nothing,
\* directories only, or files.
Found == { "none", "dirs_only", "files" }

ClaudeArgs ==
  { [tool |-> "claude_code", start |-> p[1], end |-> p[2], days |-> d,
     week |-> w] : p \in DatePairs, d \in DaysArgs, w \in BOOLEAN }
CursorArgs ==
  { [tool |-> "cursor", start |-> p[1], end |-> p[2], days |-> d,
     found |-> f] : p \in DatePairs, d \in DaysArgs, f \in Found }
CursorRequests ==
  { [tool |-> "cursor", start |-> p[1], end |-> p[2]] : p \in DatePairs }
Nows == 0..((MaxNowDay + 1) * DayLen - 1)

CliInit ==
  /\ start_date = 0 /\ end_date = 0
  /\ utc_now \in Nows
  /\ \/ request = None /\ args \in ClaudeArgs \cup CursorArgs
        /\ cli_pc = "main"
     \/ request \in ClaudeArgs \cup CursorRequests /\ args = None
        /\ cli_pc = "request"

\* stats_service.run_claude_code_stats starts the script.
RunClaudeCodeStats ==
  /\ cli_pc = "request"
  /\ request.tool = "claude_code"
  /\ args' = claude_cmd(request)
  /\ cli_pc' = "main"
  /\ UNCHANGED <<start_date, end_date, request, utc_now>>
  /\ UNCHANGED not_cli_vars

\* stats_service.run_cursor_stats starts the script.
RunCursorStats ==
  /\ cli_pc = "request"
  /\ request.tool = "cursor"
  /\ args' = cursor_cmd(request)
  /\ cli_pc' = "main"
  /\ UNCHANGED <<start_date, end_date, request, utc_now>>
  /\ UNCHANGED not_cli_vars

\* cursor_stats.py main: the export files are gathered; with none, or none
\* that is a file, the script exits with status 1.
FindCsvFiles ==
  /\ cli_pc = "main"
  /\ args.tool = "cursor"
  /\ cli_pc' = IF args.found = "files" THEN "dates" ELSE "exit"
  /\ UNCHANGED <<start_date, end_date, request, args, utc_now>>
  /\ UNCHANGED not_cli_vars

\* main: the date range is determined; cli_pc names the branch taken.
ResolveWindow ==
  /\ \/ cli_pc = "main" /\ args.tool = "claude_code"
     \/ cli_pc = "dates" /\ args.tool = "cursor"
  /\ LET w == IF args.tool = "cursor"
              THEN cursor_resolve_window(args, utc_now)
              ELSE claude_resolve_window(args, utc_now)
     IN /\ cli_pc' = w.branch
        /\ IF w.branch = "raised"
           THEN UNCHANGED <<start_date, end_date>>
           ELSE start_date' = w.start /\ end_date' = w.end
  /\ UNCHANGED <<request, args, utc_now>>
  /\ UNCHANGED not_cli_vars

CliNext ==
  RunClaudeCodeStats \/ RunCursorStats \/ FindCsvFiles \/ ResolveWindow

\* ------------------------------------------------------------ specifications
JsonlStart ==
  /\ JsonlInit /\ CsvIdle /\ ClaudeCollectIdle /\ CursorCollectIdle
  /\ MergeIdle /\ ReportIdle /\ CliIdle
JsonlLinesStart ==
  /\ JsonlLinesInit /\ CsvIdle /\ ClaudeCollectIdle /\ CursorCollectIdle
  /\ MergeIdle /\ ReportIdle /\ CliIdle
CsvStart ==
  /\ JsonlIdle /\ CsvInit /\ ClaudeCollectIdle /\ CursorCollectIdle
  /\ MergeIdle /\ ReportIdle /\ CliIdle
ClaudeCollectStart ==
  /\ JsonlIdle /\ CsvIdle /\ ClaudeCollectInit /\ CursorCollectIdle
  /\ MergeIdle /\ ReportIdle /\ CliIdle
CursorCollectStart ==
  /\ JsonlIdle /\ ClaudeCollectIdle /\ CursorCollectInit
  /\ MergeIdle /\ ReportIdle /\ CliIdle
MergeStart ==
  /\ JsonlIdle /\ CsvIdle /\ ClaudeCollectIdle /\ CursorCollectIdle
  /\ MergeInit /\ CliIdle
PersonalStart ==
  /\ JsonlIdle /\ CsvIdle /\ ClaudeCollectIdle /\ CursorCollectIdle
  /\ PersonalInit /\ CliIdle

CliStart ==
  /\ JsonlIdle /\ CsvIdle /\ ClaudeCollectIdle /\ CursorCollectIdle
  /\ MergeIdle /\ ReportIdle /\ CliInit

\* One pass of analyze_jsonl_file.
SpecJsonl == JsonlStart /\ [][JsonlNext]_vars

\* One pass of analyze_jsonl_file over a file with malformed lines.
SpecJsonlLines == JsonlLinesStart /\ [][JsonlNext]_vars

\* One pass of analyze_csv.
SpecCsv == CsvStart /\ [][CsvNext]_vars

\* One pass of either analyzer.
SpecAnalyzers == (JsonlStart \/ CsvStart) /\ [][JsonlNext \/ CsvNext]_vars

\* One run of either collector.
SpecCollectors ==
  (ClaudeCollectStart \/ CursorCollectStart)
  /\ [][ClaudeCollectNext \/ CursorCollectNext]_vars

\* One run of merge_stats.
SpecMerge == MergeStart /\ [][MergeNext]_vars

\* One run of the event-log collector, or one run of merge_stats.
SpecCollectMerge ==
  (ClaudeCollectStart \/ MergeStart)
  /\ [][ClaudeCollectNext \/ MergeNext]_vars

\* A merge followed by one of the team reports, or a personal report.
SpecReports ==
  (MergeStart \/ PersonalStart) /\ [][MergeNext \/ ReportNext]_vars

\* One pass of analyze_jsonl_file or one run of the event-log collect_stats.
SpecJsonlCollect ==
  (JsonlStart \/ ClaudeCollectStart)
  /\ [][JsonlNext \/ ClaudeCollectNext]_vars

\* One run of a collector script, from the command line or the service.
SpecCli == CliStart /\ [][CliNext]_vars

\* One run of a collector script or of the event-log collect_stats.
SpecCommands ==
  (CliStart \/ ClaudeCollectStart) /\ [][CliNext \/ ClaudeCollectNext]_vars

\* ================================================================ properties
\* ---- the session file under analysis
Lines == jsonl_path.lines
RecordAt(i) == Lines[i].record
MessageAt(i) == Get(RecordAt(i), "message", EmptyDict)
UsageAt(i) == Get(MessageAt(i), "usage", EmptyDict)
RidAt(i) == Get(RecordAt(i), "requestId", "")
ModelAt(i) == Get(MessageAt(i), "model", "unknown")
PartsAt(i) ==
  Get(MessageAt(i), "content", [kind |-> "list", parts |-> <<>>]).parts

\* The record carries a timestamp that parses and lies in
\* [start_date, end_date], both ends included.
InsideWindow(record) ==
  LET ts == Get(record, "timestamp", TsNone)
  IN /\ ts.form \in {"Z", "offset", "naive"}
     /\ start_date <= Instant(parse_timestamp(ts))
     /\ Instant(parse_timestamp(ts)) <= end_date
InsideWindowLine(line) == line.kind = "record" /\ InsideWindow(line.record)
DayAt(i) == DateOf(parse_timestamp(RecordAt(i).timestamp))

\* The in-window assistant records, and the in-window user records.
AssistantIn ==
  { i \in 1..Len(Lines) :
      InsideWindowLine(Lines[i]) /\ Get(RecordAt(i), "type", "") = "assistant" }
UserIn ==
  { i \in 1..Len(Lines) :
      InsideWindowLine(Lines[i]) /\ Get(RecordAt(i), "type", "") = "user" }

\* The records whose usage counts: those carrying usage that have no
\* request id or are the first in-window record of their request id.
Counted ==
  { i \in AssistantIn :
      /\ DOMAIN UsageAt(i) # {}
      /\ RidAt(i) = "" \/ \A j \in AssistantIn : j < i => RidAt(j) # RidAt(i) }

UsageSum(S, k) == SumOver([i \in S |-> Get(UsageAt(i), k, 0)], S)

\* Every in-window record with a request id carries a usage payload.
RequestsCarryUsage ==
  \A i \in AssistantIn : RidAt(i) # "" => DOMAIN UsageAt(i) # {}

PartsSum(S, type) == SumOver([i \in S |-> CountParts(PartsAt(i), type)], S)

\* C2: every in-window assistant record, a later record of a request id
\* already seen included, adds one to assistant_messages per text part and
\* one to tool_calls per tool_use part.
C2_ContentCountedPerRecord ==
  (jl_pc = "returned" /\ jsonl_path.readable) =>
    /\ stats.assistant_messages = PartsSum(AssistantIn, "text")
    /\ stats.tool_calls = PartsSum(AssistantIn, "tool_use")

\* ---- the export under analysis
InsideWindowRow(row) ==
  LET ts == Get(row, "Date", TsNone)
  IN /\ ts.form \in {"Z", "offset", "naive"}
     /\ start_date <= Instant(parse_timestamp(ts))
     /\ Instant(parse_timestamp(ts)) <= end_date

\* A window that holds every instant of the inputs.
WideStart == 0 - 1
WideEnd == MaxTime + 2

\* C3: for both analyzers the result is that of the records with
\* start_date <= t <= end_date alone, so a record outside the window
\* changes nothing; and each record inside, the ends included, is counted
\* once: a user message in user_messages, an assistant record without
\* request id in the request counts, a row in records or errored_records.
C3_WindowInclusive ==
  /\ (jl_pc = "returned" /\ jsonl_path.readable) =>
       /\ stats =
            analyze_jsonl_file(
              [jsonl_path EXCEPT !.lines = SelectSeq(Lines, InsideWindowLine)],
              WideStart, WideEnd)
       /\ stats.user_messages = Cardinality(UserIn)
       /\ (\A i \in AssistantIn : RidAt(i) = "") =>
            SumOver([m \in DOMAIN stats.models_used |->
                       stats.models_used[m].requests],
                    DOMAIN stats.models_used)
              = Cardinality({ i \in AssistantIn : DOMAIN UsageAt(i) # {} })
  /\ csv_pc = "returned" =>
       /\ csv_stats =
            analyze_csv(SelectSeq(csv_path, InsideWindowRow),
                        WideStart, WideEnd, target_user)
       /\ target_user = "" =>
            csv_stats.records + csv_stats.errored_records =
              Cardinality({ i \in 1..Len(csv_path) : InsideWindowRow(csv_path[i]) })

\* A user message at start_date and one at end_date, the latter written
\* with a numeric offset, are both counted.
C3_Witness ==
  /\ jl_pc = "returned"
  /\ start_date < end_date
  /\ Len(Lines) = 2
  /\ \A i \in 1..2 : Get(RecordAt(i), "type", "") = "user"
  /\ Instant(parse_timestamp(RecordAt(1).timestamp)) = start_date
  /\ Instant(parse_timestamp(RecordAt(2).timestamp)) = end_date
  /\ RecordAt(2).timestamp.form = "offset"
  /\ stats.user_messages = 2

\* ---- the rows consumed so far
RowUser(i) == Get(csv_path[i], "User", "")
RowModel(i) == Get(csv_path[i], "Model", "unknown")
RowDay(i) == DateOf(parse_timestamp(csv_path[i].Date))
RowCell(i, column) == parse_number(Get(csv_path[i], column, Num(0)))

\* Rows read that lie in the window and pass the user filter: the rows
\* that reach the kind check.
Classified ==
  { i \in 1..row_no :
      /\ InsideWindowRow(csv_path[i])
      /\ target_user = "" \/ RowUser(i) = target_user }
ErroredRows ==
  { i \in Classified :
      \/ Contains(Get(csv_path[i], "Kind", <<>>), "Errored")
      \/ Contains(Get(csv_path[i], "Kind", <<>>), "No Charge") }
BillableRows == Classified \ ErroredRows

ColumnSum(S, column) == SumOver([i \in S |-> RowCell(i, column)], S)

\* The tally of a set of billable rows.
TallyOf(S) ==
  [input_tokens_with_cache |-> ColumnSum(S, "Input (w/ Cache Write)"),
   input_tokens_without_cache |-> ColumnSum(S, "Input (w/o Cache Write)"),
   cache_read_tokens |-> ColumnSum(S, "Cache Read"),
   output_tokens |-> ColumnSum(S, "Output Tokens"),
   total_tokens |-> ColumnSum(S, "Total Tokens"),
   requests |-> ColumnSum(S, "Requests"),
   records |-> Cardinality(S)]

DayTallyOf(S) ==
  [input_tokens_with_cache |-> ColumnSum(S, "Input (w/ Cache Write)"),
   output_tokens |-> ColumnSum(S, "Output Tokens"),
   total_tokens |-> ColumnSum(S, "Total Tokens"),
   requests |-> ColumnSum(S, "Requests"),
   records |-> Cardinality(S)]

\* C4: after any number of rows, errored_records is the number of
\* in-window rows (of the filtered user) whose Kind contains "Errored" or
\* "No Charge", and the token totals, requests, records and the by_model,
\* by_user and by_day buckets are the tallies of the other in-window rows
\* alone: an errored row changes nothing but errored_records.
C4_ErroredRowsOnlyCounted ==
  csv_pc # "idle" =>
    /\ csv_stats.errored_records = Cardinality(ErroredRows)
    /\ \A k \in DOMAIN ZeroCsvBucket : csv_stats[k] = TallyOf(BillableRows)[k]
    /\ DOMAIN csv_stats.by_model = { RowModel(i) : i \in BillableRows }
    /\ \A m \in DOMAIN csv_stats.by_model :
         csv_stats.by_model[m] = TallyOf({ i \in BillableRows : RowModel(i) = m })
    /\ DOMAIN csv_stats.by_user = { RowUser(i) : i \in BillableRows }
    /\ \A u \in DOMAIN csv_stats.by_user :
         csv_stats.by_user[u] = TallyOf({ i \in BillableRows : RowUser(i) = u })
    /\ DOMAIN csv_stats.by_day = { RowDay(i) : i \in BillableRows }
    /\ \A d \in DOMAIN csv_stats.by_day :
         csv_stats.by_day[d] = DayTallyOf({ i \in BillableRows : RowDay(i) = d })

\* One Errored row (total 500) and one On-Demand row (total 300):
\* total_tokens 300 and errored_records 1.
C4_Witness ==
  /\ csv_pc = "returned"
  /\ Len(csv_path) = 2
  /\ Get(csv_path[1], "Kind", <<>>) = <<"Errored">>
  /\ RowCell(1, "Total Tokens") = F(500)
  /\ Get(csv_path[2], "Kind", <<>>) = <<"On-Demand">>
  /\ RowCell(2, "Total Tokens") = F(300)
  /\ Classified = {1, 2}
  /\ csv_stats.total_tokens = F(300)
  /\ csv_stats.errored_records = 1
  /\ csv_stats.records = 1

\* ---- the artifacts given to merge_stats
Loaded == { i \in 1..Len(stats_files) : stats_files[i].loadable }
MetadataOf(i) == Get(stats_files[i].stats, "metadata", EmptyDict)
SummaryOf(i) == Get(stats_files[i].stats, "summary", EmptyDict)
SourceOf(i) ==
  IF Get(MetadataOf(i), "source", "claude_code") = "cursor"
  THEN "cursor" ELSE "claude_code"
OwnerOf(i) == Get(MetadataOf(i), "username", stats_files[i].stem)
ClaudeArtifacts == { i \in Loaded : SourceOf(i) = "claude_code" }
CursorArtifacts == { i \in Loaded : SourceOf(i) = "cursor" }
DistinctPairs ==
  \A i, j \in Loaded :
    i # j => <<OwnerOf(i), SourceOf(i)>> # <<OwnerOf(j), SourceOf(j)>>

\* C5: for artifacts with distinct (owner, tool) pairs, the combined total
\* of the merged summary is the sum of total_tokens_with_cache over the
\* event-log artifacts plus the sum of total_tokens over the tabular
\* artifacts, and total_members is the number of distinct owners.
C5_CombinedTotalAndMembers ==
  (mg_pc = "merged" /\ DistinctPairs) =>
    /\ result.team_summary.combined.total_tokens =
         F(SumOver([i \in ClaudeArtifacts |->
                      Get(SummaryOf(i), "total_tokens_with_cache", 0)],
                   ClaudeArtifacts))
         + SumOver([i \in CursorArtifacts |->
                      Get(SummaryOf(i), "total_tokens", 0)],
                   CursorArtifacts)
    /\ result.metadata.total_members =
         Cardinality({ OwnerOf(i) : i \in Loaded })

\* An event-log summary with comparable total 1000 and a tabular summary
\* with total 400 of two owners: combined total 1400, two members.
C5_Witness ==
  /\ mg_pc = "merged"
  /\ Len(stats_files) = 2 /\ Loaded = {1, 2}
  /\ SourceOf(1) = "claude_code" /\ SourceOf(2) = "cursor"
  /\ OwnerOf(1) # OwnerOf(2)
  /\ Get(SummaryOf(1), "total_tokens_with_cache", 0) = 1000
  /\ Get(SummaryOf(1), "total_tokens", 0) = 900
  /\ Get(SummaryOf(2), "total_tokens", 0) = F(400)
  /\ result.team_summary.combined.total_tokens = F(1400)
  /\ result.metadata.total_members = 2

Reverse(seq) == [i \in 1..Len(seq) |-> seq[Len(seq) + 1 - i]]

\* The Team Summary without the generation time and the list of sources.
TeamView(r) ==
  [team_summary |-> r.team_summary, by_member |-> r.by_member,
   by_tool |-> r.by_tool, date_range |-> r.date_range,
   total_members |-> r.metadata.total_members]

\* C6: merging the files in the opposite order yields the same team
\* summary, by_member, by_tool, date_range and member counts.
C6_MergeOrderIndependent ==
  mg_pc = "merged" =>
    TeamView(result)
      = TeamView(merge_stats(Reverse(stats_files), result.metadata.generated_at))

\* ---- the comparable total
ComparableIdentity(s) ==
  /\ s.total_tokens = s.total_input_tokens + s.total_output_tokens
  /\ s.total_tokens_with_cache =
       s.total_tokens + s.total_cache_read_tokens
       + s.total_cache_creation_tokens

\* A summary with the token fields of a collect_stats summary, for which
\* the identity holds.
CollectorMade(s) ==
  /\ { "total_input_tokens", "total_output_tokens",
       "total_cache_creation_tokens", "total_cache_read_tokens",
       "total_tokens", "total_tokens_with_cache" } \subseteq DOMAIN s
  /\ ComparableIdentity(s)

\* C7: the summary collect_stats returns has total_tokens = input + output
\* and total_tokens_with_cache = total_tokens + cache read + cache
\* creation, and so has team_summary.claude_code after a merge whose
\* event-log artifacts are such summaries.
C7_ComparableTotalIdentity ==
  /\ cc_pc = "returned" => ComparableIdentity(cc_result.summary)
  /\ (mg_pc = "merged"
      /\ \A i \in ClaudeArtifacts : CollectorMade(SummaryOf(i)))
       => ComparableIdentity(result.team_summary.claude_code)

\* A collector run over sessions with cache tokens.
C7_Witness ==
  /\ cc_pc = "returned"
  /\ cc_result.summary.total_cache_creation_tokens > 0
  /\ cc_result.summary.total_cache_read_tokens > 0
  /\ cc_result.summary.total_tokens > 0
  /\ cc_result.summary.total_sessions = 2

\* ---- the aggregates the collectors fold
RECURSIVE EntriesOf(_)
EntriesOf(dirs) ==
  IF dirs = <<>> THEN <<>> ELSE Head(dirs).entries \o EntriesOf(Tail(dirs))

\* The aggregates of the sessions the event-log collector analyzed.
SessionParts ==
  LET scanned ==
        SelectSeq(EntriesOf(project_dirs),
                  LAMBDA e : /\ Get(e, "sessionId", "") # ""
                             /\ prefilter(e, start_date, end_date) = "scan")
  IN [i \in 1..Len(scanned) |->
        analyze_jsonl_file(scanned[i].file, start_date, end_date)]

\* The aggregates of the exports the tabular collector analyzed.
CsvParts ==
  [i \in 1..Len(csv_files) |->
     analyze_csv(csv_files[i], start_date, end_date, target_user)]

\* The buckets of dimension dim in the folded result are the key-wise
\* union of the buckets in parts: the bucket itself when one part holds
\* the key, and the field-wise sum of the parts' buckets in any case.
KeywiseUnion(folded, parts, dim) ==
  /\ DOMAIN folded = UNION { DOMAIN parts[i][dim] : i \in DOMAIN parts }
  /\ \A k \in DOMAIN folded :
       LET holders == { i \in DOMAIN parts : k \in DOMAIN parts[i][dim] }
       IN /\ \A i \in holders :
               /\ holders = {i} => folded[k] = parts[i][dim][k]
               /\ DOMAIN folded[k] = DOMAIN parts[i][dim][k]
          /\ \A f \in DOMAIN folded[k] :
               folded[k][f] = SumOver([i \in holders |-> parts[i][dim][k][f]],
                                      holders)

PartSum(parts, field) == SumOver([i \in DOMAIN parts |-> parts[i][field]], DOMAIN parts)

CursorFoldAdditive ==
  cu_pc = "returned" =>
    /\ \A f \in { "input_tokens_with_cache", "input_tokens_without_cache",
                  "cache_read_tokens", "output_tokens", "total_tokens",
                  "requests", "records", "errored_records" } :
         cu_result.summary[f] = PartSum(CsvParts, f)
    /\ KeywiseUnion(cu_result.by_model, CsvParts, "by_model")
    /\ KeywiseUnion(cu_result.by_user, CsvParts, "by_user")
    /\ KeywiseUnion(cu_result.by_day, CsvParts, "by_day")

ClaudeFoldAdditive ==
  cc_pc = "returned" =>
    /\ cc_result.summary.total_input_tokens = PartSum(SessionParts, "input_tokens")
    /\ cc_result.summary.total_output_tokens = PartSum(SessionParts, "output_tokens")
    /\ cc_result.summary.total_cache_creation_tokens =
         PartSum(SessionParts, "cache_creation_input_tokens")
    /\ cc_result.summary.total_cache_read_tokens =
         PartSum(SessionParts, "cache_read_input_tokens")
    /\ cc_result.summary.total_user_messages = PartSum(SessionParts, "user_messages")
    /\ KeywiseUnion(cc_result.by_model, SessionParts, "models_used")
    /\ KeywiseUnion(cc_result.by_day, SessionParts, "by_day")

\* C8: the result of either collector is the fold of the per-file
\* aggregates: every total is the sum of the aggregates' totals and every
\* by_model, by_user and by_day bucket is the bucket of the aggregate that
\* held the key, summed field by field where several held it.
C8_FoldAdditive == CursorFoldAdditive /\ ClaudeFoldAdditive

\* ---- the totals a report path reads
ReportCcTotal ==
  IF report.path = "personal_markdown"
  THEN LET cc == IF data.claude_code = None THEN EmptyDict ELSE data.claude_code
           summary == Get(cc, "summary", EmptyDict)
       IN Get(summary, "total_tokens_with_cache", Get(summary, "total_tokens", 0))
  ELSE result.team_summary.claude_code.total_tokens_with_cache
ReportCuTotal ==
  IF report.path = "personal_markdown"
  THEN LET cu == IF data.cursor = None THEN EmptyDict ELSE data.cursor
       IN Get(Get(cu, "summary", EmptyDict), "total_tokens", 0)
  ELSE result.team_summary.cursor.total_tokens

\* C9: no report path divides by a zero tabular total, and a path that
\* presents a migration ratio while the tabular total is 0 and the
\* event-log comparable total is positive presents the "fully migrated"
\* sentinel.
C9_ZeroDenominatorSentinel ==
  report.path # "none" =>
    /\ report.migration.kind # "ZeroDivisionError"
    /\ (ReportCuTotal = 0 /\ ReportCcTotal > 0
        /\ report.migration.kind # "omitted")
         => report.migration.kind = "sentinel"

\* ---- the dates the artifacts carry
CarriedDates(field) ==
  { MetadataOf(i)[field] :
      i \in { j \in Loaded : /\ field \in DOMAIN MetadataOf(j)
                             /\ Truthy(MetadataOf(j)[field]) } }
Earliest(dates) == CHOOSE d \in dates : \A e \in dates : d = e \/ StrLess(d, e)
Latest(dates) == CHOOSE d \in dates : \A e \in dates : d = e \/ StrLess(e, d)

\* C10: after the merge date_range.start is the smallest start_date and
\* date_range.end the largest end_date of the loaded artifacts that carry
\* one (in the order of the date strings), and each is None exactly when
\* no loaded artifact carries that field.
C10_DateRangeIsUnion ==
  mg_pc = "merged" =>
    /\ result.date_range.start =
         IF CarriedDates("start_date") = {} THEN None
         ELSE Earliest(CarriedDates("start_date"))
    /\ result.date_range.end =
         IF CarriedDates("end_date") = {} THEN None
         ELSE Latest(CarriedDates("end_date"))

\* Two artifacts with overlapping windows: the start comes from one, the
\* end from the other.
C10_Witness ==
  /\ mg_pc = "merged"
  /\ Len(stats_files) = 2 /\ Loaded = {1, 2}
  /\ \E i, j \in Loaded :
       /\ i # j
       /\ Truthy(Get(MetadataOf(i), "start_date", None))
       /\ Truthy(Get(MetadataOf(j), "start_date", None))
       /\ StrLess(MetadataOf(i).start_date, MetadataOf(j).start_date)
       /\ StrLess(MetadataOf(i).end_date, MetadataOf(j).end_date)
       /\ result.date_range.start = MetadataOf(i).start_date
       /\ result.date_range.end = MetadataOf(j).end_date

\* ---- by_member
OwnersLoaded == { OwnerOf(i) : i \in Loaded }
ArtifactsOf(m, k) == { i \in Loaded : OwnerOf(i) = m /\ SourceOf(i) = k }
LastOf(m, k) ==
  CHOOSE i \in ArtifactsOf(m, k) : \A j \in ArtifactsOf(m, k) : j <= i
ToolKinds == {"claude_code", "cursor"}
\* The total an artifact reports, as by_member shows it.
ShownTotal(i) ==
  IF SourceOf(i) = "cursor"
  THEN PyInt(Get(SummaryOf(i), "total_tokens", 0))
  ELSE Get(SummaryOf(i), "total_tokens", 0)
ShownInput(i) ==
  IF SourceOf(i) = "cursor"
  THEN PyInt(Get(SummaryOf(i), "input_tokens_with_cache", 0))
  ELSE Get(SummaryOf(i), "total_input_tokens", 0)
ShownOutput(i) ==
  IF SourceOf(i) = "cursor"
  THEN PyInt(Get(SummaryOf(i), "output_tokens", 0))
  ELSE Get(SummaryOf(i), "total_output_tokens", 0)
ShownDays(i) == Get(SummaryOf(i), "active_days", 0)

\* C11: in the merged result the members are the owners of the loaded
\* artifacts, and a member's side for a tool is null exactly when no loaded
\* artifact of that owner and tool was given; an artifact whose totals are
\* all zero leaves a present entry holding zeros.
C11_AbsentIffNoArtifact ==
  mg_pc = "merged" =>
    /\ DOMAIN result.by_member = OwnersLoaded
    /\ \A m \in DOMAIN result.by_member : \A k \in ToolKinds :
         /\ (result.by_member[m][k] = None) <=> (ArtifactsOf(m, k) = {})
         /\ (ArtifactsOf(m, k) # {} /\ ShownTotal(LastOf(m, k)) = 0) =>
              /\ result.by_member[m][k] # None
              /\ result.by_member[m][k].total_tokens = 0

\* A merge where one member has an all-zero event-log artifact and no
\* tabular artifact: the first side is present with zeros, the second null.
C11_Witness ==
  /\ mg_pc = "merged"
  /\ \E m \in DOMAIN result.by_member :
       /\ ArtifactsOf(m, "claude_code") # {}
       /\ ArtifactsOf(m, "cursor") = {}
       /\ \A i \in ArtifactsOf(m, "claude_code") : ShownTotal(i) = 0
       /\ result.by_member[m].claude_code # None
       /\ result.by_member[m].claude_code.total_tokens = 0
       /\ result.by_member[m].cursor = None

\* C12: a member's entry for a tool holds the values of the artifact of
\* that owner and tool processed last, whatever earlier artifacts of the
\* same owner and tool held.
C12_LastArtifactOverwrites ==
  mg_pc = "merged" =>
    \A m \in OwnersLoaded : \A k \in ToolKinds :
      ArtifactsOf(m, k) # {} =>
        LET e == result.by_member[m][k]
            i == LastOf(m, k)
        IN /\ e.total_tokens = ShownTotal(i)
           /\ e.input_tokens = ShownInput(i)
           /\ e.output_tokens = ShownOutput(i)
           /\ e.active_days = ShownDays(i)

\* Two event-log artifacts of one owner with different non-zero totals: the
\* entry shows the later one, which differs from the sum.
C12_Witness ==
  /\ mg_pc = "merged"
  /\ Len(stats_files) = 2 /\ Loaded = {1, 2}
  /\ OwnerOf(1) = OwnerOf(2) /\ SourceOf(1) = SourceOf(2)
  /\ ShownTotal(1) > 0 /\ ShownTotal(2) > 0
  /\ ShownTotal(1) # ShownTotal(2)
  /\ result.by_member[OwnerOf(2)][SourceOf(2)].total_tokens = ShownTotal(2)

\* ---- files that do not load
ValidFiles == SelectSeq(stats_files, LAMBDA f : f.loadable)
SourcesView(r) == [team |-> TeamView(r), sources |-> r.metadata.sources]

\* C15: a merge equals the merge of its loadable files alone in team
\* totals, by_member, by_tool, member counts, date_range and
\* metadata.sources.
C15_UnloadableFileSkipped ==
  mg_pc = "merged" =>
    SourcesView(result) =
      SourcesView(merge_stats(ValidFiles, result.metadata.generated_at))

\* A merge of an unloadable file and a loadable one.
C15_Witness ==
  /\ mg_pc = "merged"
  /\ Len(stats_files) = 2
  /\ Len(ValidFiles) = 1
  /\ Len(result.metadata.sources) = 1
  /\ result.metadata.total_members = 1

\* C16: a merge of one or more files none of which loads does not return
\* a summary.
C16_NoValidInputFails ==
  (mg_pc = "merged" /\ Len(stats_files) >= 1) => ValidFiles # <<>>

\* C20: with distinct (owner, tool) pairs, the combined total counts each
\* event-log artifact by its total_tokens_with_cache, or by its
\* total_tokens when that field is absent, plus the tabular totals.
C20_FallbackToApiTotal ==
  (mg_pc = "merged" /\ DistinctPairs) =>
    result.team_summary.combined.total_tokens =
      F(SumOver([i \in ClaudeArtifacts |->
                   IF "total_tokens_with_cache" \in DOMAIN SummaryOf(i)
                   THEN SummaryOf(i).total_tokens_with_cache
                   ELSE Get(SummaryOf(i), "total_tokens", 0)],
                ClaudeArtifacts))
      + SumOver([i \in CursorArtifacts |->
                   Get(SummaryOf(i), "total_tokens", 0)],
                CursorArtifacts)

\* ---- malformed lines
Malformed(line) ==
  \/ line.kind \in {"badjson", "nonobject"}
  \/ /\ line.kind = "record"
     /\ Get(line.record, "timestamp", TsNone).form \in {"none", "bad", "nonstr"}
WithoutMalformed == SelectSeq(Lines, LAMBDA l : ~Malformed(l))

\* C17: the result of a pass over a readable file is that of the file
\* with its malformed lines removed; in particular every well-formed
\* in-window user record is counted, wherever the malformed lines are.
C17_MalformedLineExcludedAlone ==
  (jl_pc = "returned" /\ jsonl_path.readable) =>
    /\ stats = analyze_jsonl_file([jsonl_path EXCEPT !.lines = WithoutMalformed],
                                  start_date, end_date)
    /\ stats.user_messages = Cardinality(UserIn)

\* ---- the day of a record
UtcDayAt(i) == Instant(parse_timestamp(RecordAt(i).timestamp)) \div DayLen
\* No line of the file ends the pass early.
PassComplete == line_no = Len(Lines)

\* C19: after a complete pass the keys of by_day are the UTC days of the
\* instants of the counted records, and each bucket holds the requests and
\* the input tokens of the records of that UTC day.
C19_DayKeyIsUtcDay ==
  (jl_pc = "returned" /\ jsonl_path.readable /\ PassComplete
     /\ \A i \in 1..Len(Lines) : ~Malformed(Lines[i])) =>
    /\ DOMAIN stats.by_day = { UtcDayAt(i) : i \in Counted }
    /\ \A d \in DOMAIN stats.by_day :
         /\ stats.by_day[d].requests =
              Cardinality({ i \in Counted : UtcDayAt(i) = d })
         /\ stats.by_day[d].input_tokens =
              UsageSum({ i \in Counted : UtcDayAt(i) = d }, "input_tokens")

\* ---- active days
NonZeroBucket(b) ==
  \E k \in {"input_tokens", "output_tokens", "cache_creation_input_tokens",
            "cache_read_input_tokens"} : Get(b, k, 0) # 0
UsageDays ==
  { d \in DOMAIN cc_result.by_day : NonZeroBucket(cc_result.by_day[d]) }

\* C18: the active_days the event-log collector returns is the number of
\* day keys of by_day that hold non-zero usage.
C18_ActiveDaysAreUsageDays ==
  cc_pc = "returned" =>
    cc_result.summary.active_days = Cardinality(UsageDays)

\* ---- the date range of a run
\* The selectors as the caller gave them.
Selectors == IF request # None THEN request ELSE args
BothDates == Truthy(Selectors.start) /\ Truthy(Selectors.end)
DaysGiven == Get(Selectors, "days", None) # None
Resolved == cli_pc \in {"explicit", "days", "week", "raised"}
Today == utc_now \div DayLen

\* C13: the date range is resolved through one branch: the explicit pair
\* when both dates are given, whatever days and week are; otherwise the
\* last N days when days is given; otherwise the current week.  A run is
\* ended early only for a missing export or a date that does not parse,
\* never for the combination of selectors.
C13_FixedPriority ==
  /\ Resolved =>
       /\ BothDates =>
            /\ cli_pc \in {"explicit", "raised"}
            /\ cli_pc = "explicit" =>
                 /\ start_date = Selectors.start.day * DayLen
                 /\ end_date = Selectors.end.day * DayLen + DayLen - 1
       /\ (~BothDates /\ DaysGiven) =>
            /\ cli_pc = "days"
            /\ start_date = (Today - (Selectors.days.n - 1)) * DayLen
            /\ end_date = Today * DayLen + DayLen - 1
       /\ (~BothDates /\ ~DaysGiven) =>
            /\ cli_pc = "week"
            /\ start_date = (Today - (Today % WeekLen)) * DayLen
            /\ end_date = Today * DayLen + DayLen - 1
  /\ cli_pc = "exit" => (args.tool = "cursor" /\ args.found # "files")
  /\ cli_pc = "raised" =>
       (BothDates /\ \E x \in {Selectors.start, Selectors.end} :
                       "day" \notin DOMAIN x)

\* ---- runs without input
NoSessionEntry ==
  \A i \in 1..Len(project_dirs) : project_dirs[i].entries = <<>>
CsvFileFound == args.found = "files"

\* C14: the event-log collector does not return a summary when there is
\* no project directory or no session entry, and the tabular script does
\* not get past gathering its exports when no CSV file is found.
C14_NoInputFails ==
  /\ cc_pc = "returned" => ~NoSessionEntry
  /\ (args # None /\ args.tool = "cursor" /\ ~CsvFileFound) =>
       cli_pc \in {"main", "exit"}

\* C21: whichever branch resolved the date range, the window handed to
\* collect_stats has its start not after its end.
C21_WindowStartNotAfterEnd ==
  cli_pc \in {"explicit", "days", "week"} => start_date <= end_date

\* ---- session files that do not open
Opens(file) == file.exists /\ file.readable
OpenableDirs ==
  [i \in 1..Len(project_dirs) |->
     [project_dirs[i] EXCEPT
        !.entries = SelectSeq(@, LAMBDA e : Opens(e.file))]]
AllZeroAggregate ==
  [input_tokens |-> 0, output_tokens |-> 0,
   cache_creation_input_tokens |-> 0, cache_read_input_tokens |-> 0,
   user_messages |-> 0, assistant_messages |-> 0, tool_calls |-> 0,
   models_used |-> EmptyDict, by_day |-> EmptyDict]

\* C22: a pass over a session file that is missing or does not open
\* returns the all-zero aggregate, and a run of collect_stats returns what
\* it returns for the same projects without the sessions whose file is
\* missing or does not open.
C22_UnopenableFileYieldsZero ==
  /\ (jl_pc \in {"scan", "returned"} /\ ~Opens(jsonl_path)) =>
       stats = AllZeroAggregate
  /\ cc_pc = "returned" =>
       cc_result = claude_collect_stats(OpenableDirs, start_date, end_date)

\* A run whose first session file does not open although it holds a record,
\* and whose second session is counted.
C22_Witness ==
  /\ cc_pc = "returned"
  /\ Len(project_dirs) >= 1
  /\ Len(project_dirs[1].entries) = 2
  /\ ~Opens(project_dirs[1].entries[1].file)
  /\ project_dirs[1].entries[1].file.lines # <<>>
  /\ Get(project_dirs[1].entries[1], "sessionId", "") # ""
  /\ Opens(project_dirs[1].entries[2].file)
  /\ cc_result.summary.total_sessions = 1
  /\ cc_result.summary.total_tokens > 0

\* ---- user records
\* The record carries a text body: its content is a string, or a list
\* holding at least one text part.
HasTextBody(i) ==
  /\ "content" \in DOMAIN MessageAt(i)
  /\ \/ MessageAt(i).content.kind = "str"
     \/ /\ MessageAt(i).content.kind = "list"
        /\ CountParts(MessageAt(i).content.parts, "text") > 0
NoMalformedLine == \A i \in 1..Len(Lines) : ~Malformed(Lines[i])

\* C23: after a complete pass, user_messages is the number of in-window
\* user records that carry a text body, and the four token totals are those
\* of the assistant records alone.
C23_UserMessageIffTextBody ==
  (jl_pc = "returned" /\ jsonl_path.readable /\ PassComplete
     /\ NoMalformedLine) =>
    /\ stats.user_messages = Cardinality({ i \in UserIn : HasTextBody(i) })
    /\ stats.input_tokens = UsageSum(Counted, "input_tokens")
    /\ stats.output_tokens = UsageSum(Counted, "output_tokens")
    /\ stats.cache_creation_input_tokens =
         UsageSum(Counted, "cache_creation_input_tokens")
    /\ stats.cache_read_input_tokens =
         UsageSum(Counted, "cache_read_input_tokens")

\* ---- request ids across session files
\* The sessions the collector scans, in order.
ScannedEntries ==
  SelectSeq(EntriesOf(project_dirs),
            LAMBDA e : /\ Get(e, "sessionId", "") # ""
                       /\ prefilter(e, start_date, end_date) = "scan"
                       /\ Opens(e.file))
\* The lines of one file whose usage counts when the file is read alone:
\* in-window assistant records with usage, without request id or first of
\* their request id in that file.
FileCounted(ls) ==
  { i \in 1..Len(ls) :
      /\ InsideWindowLine(ls[i])
      /\ Get(ls[i].record, "type", "") = "assistant"
      /\ DOMAIN Get(Get(ls[i].record, "message", EmptyDict), "usage", EmptyDict)
           # {}
      /\ \/ Get(ls[i].record, "requestId", "") = ""
         \/ \A j \in 1..(i - 1) :
              ~(/\ InsideWindowLine(ls[j])
                /\ Get(ls[j].record, "type", "") = "assistant"
                /\ Get(ls[j].record, "requestId", "")
                     = Get(ls[i].record, "requestId", "")) }
FileInput(ls) ==
  SumOver([i \in FileCounted(ls) |-> Get(ls[i].record.message.usage,
                                         "input_tokens", 0)],
          FileCounted(ls))
SharedRequestId(a, b) ==
  \E i \in FileCounted(a.file.lines), j \in FileCounted(b.file.lines) :
    /\ Get(a.file.lines[i].record, "requestId", "") # ""
    /\ Get(a.file.lines[i].record, "requestId", "")
         = Get(b.file.lines[j].record, "requestId", "")

\* C24: the input total and the request count of a collect_stats run are
\* the sums over the scanned files of what each file counts when read
\* alone, so a request id that occurs in two files counts once in each.
C24_SeenSetPerFile ==
  cc_pc = "returned" =>
    /\ cc_result.summary.total_input_tokens =
         SumOver([k \in 1..Len(ScannedEntries) |->
                    FileInput(ScannedEntries[k].file.lines)],
                 1..Len(ScannedEntries))
    /\ SumOver([m \in DOMAIN cc_result.by_model |->
                  cc_result.by_model[m].requests],
               DOMAIN cc_result.by_model)
         = SumOver([k \in 1..Len(ScannedEntries) |->
                      Cardinality(FileCounted(ScannedEntries[k].file.lines))],
                   1..Len(ScannedEntries))

\* Two scanned sessions whose files hold the same request id: both count.
C24_Witness ==
  /\ cc_pc = "returned"
  /\ Len(ScannedEntries) = 2
  /\ SharedRequestId(ScannedEntries[1], ScannedEntries[2])
  /\ ScannedEntries[1].sessionId # ScannedEntries[2].sessionId
  /\ cc_result.summary.total_input_tokens = 200
  /\ cc_result.by_model["m1"].requests = 2

\* ---- team totals against the member breakdown
MemberTotal(k) ==
  LET shown == { m \in DOMAIN result.by_member : result.by_member[m][k] # None }
  IN SumOver([m \in shown |-> result.by_member[m][k].total_tokens], shown)

\* C25: after a merge, the team total_tokens of each tool is the sum of
\* that tool's total_tokens over the by_member entries.
C25_TeamTotalIsMemberSum ==
  mg_pc = "merged" =>
    /\ result.team_summary.claude_code.total_tokens = MemberTotal("claude_code")
    /\ result.team_summary.cursor.total_tokens = F(MemberTotal("cursor"))

\* ---- request ids first seen without usage
\* The records whose usage counts when every request id with usage counts
\* once: those carrying usage that have no request id or are the first
\* in-window record of their request id to carry usage.
FirstWithUsage ==
  { i \in AssistantIn :
      /\ DOMAIN UsageAt(i) # {}
      /\ \/ RidAt(i) = ""
         \/ \A j \in AssistantIn :
              (j < i /\ RidAt(j) = RidAt(i)) => DOMAIN UsageAt(j) = {} }

\* C26: after a pass over a readable file, the usage of every request id
\* that has an in-window record with usage is counted once: the input and
\* output totals and the number of requests are those of the first record
\* with usage of each request id and of the records without request id.
C26_UsageCountedDespiteEarlierRecord ==
  (jl_pc = "returned" /\ jsonl_path.readable) =>
    /\ stats.input_tokens = UsageSum(FirstWithUsage, "input_tokens")
    /\ stats.output_tokens = UsageSum(FirstWithUsage, "output_tokens")
    /\ SumOver([m \in DOMAIN stats.models_used |->
                  stats.models_used[m].requests],
               DOMAIN stats.models_used)
         = Cardinality(FirstWithUsage)

\* ---- the project breakdown
ProjectSum(field) ==
  SumOver([p \in DOMAIN cc_result.by_project |-> cc_result.by_project[p][field]],
          DOMAIN cc_result.by_project)

\* C27: in the summary collect_stats returns, each of the four token
\* totals is the sum of that field over the by_project entries.
C27_SummaryIsProjectSum ==
  cc_pc = "returned" =>
    /\ cc_result.summary.total_input_tokens = ProjectSum("input_tokens")
    /\ cc_result.summary.total_output_tokens = ProjectSum("output_tokens")
    /\ cc_result.summary.total_cache_creation_tokens =
         ProjectSum("cache_creation_input_tokens")
    /\ cc_result.summary.total_cache_read_tokens =
         ProjectSum("cache_read_input_tokens")

\* ---- the three breakdowns of the token totals
TokenFields ==
  {"input_tokens", "output_tokens", "cache_creation_input_tokens",
   "cache_read_input_tokens"}

\* The sum of a field over the buckets of a breakdown (a dict or a list).
FieldSum(buckets, field) ==
  SumOver([k \in DOMAIN buckets |-> buckets[k][field]], DOMAIN buckets)

\* The summary total of a token field.
SummaryTotal(field) ==
  CASE field = "input_tokens" -> cc_result.summary.total_input_tokens
    [] field = "output_tokens" -> cc_result.summary.total_output_tokens
    [] field = "cache_creation_input_tokens" ->
         cc_result.summary.total_cache_creation_tokens
    [] field = "cache_read_input_tokens" ->
         cc_result.summary.total_cache_read_tokens

\* C28: in the aggregate of analyze_jsonl_file, at every point of the scan,
\* and in the summary collect_stats returns, the sum of each token field over
\* the model buckets equals its sum over the day buckets and equals the total
\* of the field; and each day's total_tokens_with_cache is the sum of the
\* day's four token fields.
C28_BreakdownsAgree ==
  /\ \A f \in TokenFields :
       /\ FieldSum(stats.models_used, f) = stats[f]
       /\ FieldSum(stats.by_day, f) = stats[f]
  /\ cc_pc = "returned" =>
       /\ \A f \in TokenFields :
            /\ FieldSum(cc_result.by_model, f) = SummaryTotal(f)
            /\ FieldSum(cc_result.by_day, f) = SummaryTotal(f)
       /\ \A d \in DOMAIN cc_result.by_day :
            cc_result.by_day[d].total_tokens_with_cache =
              cc_result.by_day[d].input_tokens
              + cc_result.by_day[d].output_tokens
              + cc_result.by_day[d].cache_creation_input_tokens
              + cc_result.by_day[d].cache_read_input_tokens

\* Two models and two days hold tokens of all four kinds.
C28_Witness ==
  /\ cc_pc = "returned"
  /\ Cardinality(DOMAIN cc_result.by_model) >= 2
  /\ Cardinality(DOMAIN cc_result.by_day) >= 2
  /\ \A f \in TokenFields : SummaryTotal(f) > 0

\* ---- the session pre-filter
\* The collection with every session file scanned: the loop of collect_stats
\* without the tests on created and modified.
RECURSIVE ScanEntries(_, _, _, _, _)
ScanEntries(acc, project_name, entries, sd, ed) ==
  IF entries = <<>> THEN acc
  ELSE ScanEntries(IF Get(Head(entries), "sessionId", "") = "" THEN acc
                   ELSE scan_session(acc, project_name, Head(entries), sd, ed),
                   project_name, Tail(entries), sd, ed)

RECURSIVE ScanProjects(_, _, _, _)
ScanProjects(res, dirs, sd, ed) ==
  IF dirs = <<>> THEN res
  ELSE LET acc == ScanEntries([result |-> res,
                               project_stats |-> ZeroProjectStats,
                               raised |-> FALSE],
                              Head(dirs).name, Head(dirs).entries, sd, ed)
       IN ScanProjects(close_project(acc.result, Head(dirs).name,
                                     acc.project_stats),
                       Tail(dirs), sd, ed)

ScanEveryFile(dirs, sd, ed) ==
  LET res == ScanProjects(InitialCollect(sd, ed), dirs, sd, ed)
  IN [res EXCEPT !.summary = finish_summary(@)]

\* Every record timestamp of the entry's file lies within the entry's
\* created and modified stamps, as far as these parse.
StampsCoverRecords(entry) ==
  LET created_dt == parse_timestamp(Get(entry, "created", TsNone))
      modified_dt == parse_timestamp(Get(entry, "modified", TsNone))
  IN \A i \in 1..Len(entry.file.lines) :
       LET line == entry.file.lines[i]
           ts == IF line.kind = "record"
                 THEN Get(line.record, "timestamp", TsNone) ELSE TsNone
           t == parse_timestamp(ts)
       IN (ts.form # "none" /\ t.ok) =>
            /\ (Get(entry, "created", TsNone).form # "none" /\ created_dt.ok)
                 => Instant(created_dt) <= Instant(t)
            /\ (Get(entry, "modified", TsNone).form # "none" /\ modified_dt.ok)
                 => Instant(t) <= Instant(modified_dt)

AllStampsCoverRecords ==
  \A i \in 1..Len(project_dirs) :
    \A j \in 1..Len(project_dirs[i].entries) :
      StampsCoverRecords(project_dirs[i].entries[j])

\* C29: when the record timestamps of every session lie within its created
\* and modified stamps, collect_stats returns what scanning every session
\* file returns; an entry whose created or modified value is missing or
\* does not parse is scanned like any other.
C29_PrefilterKeepsResult ==
  (cc_pc \in {"returned", "raised"} /\ AllStampsCoverRecords) =>
    /\ cc_pc = "returned"
    /\ cc_result = ScanEveryFile(project_dirs, start_date, end_date)

\* ---- the row counters of the tabular analyzer
\* C30: after any number of rows, every in-window row that passes the user
\* filter is counted in exactly one of records and errored_records; records
\* is the sum of the records field over by_model, over by_user and over
\* by_day; with a user filter by_user has no key but the filtered user; and
\* errored_records counts errored rows of the filtered user only.
C30_RowCountedOnce ==
  csv_pc # "idle" =>
    /\ csv_stats.records + csv_stats.errored_records = Cardinality(Classified)
    /\ csv_stats.records = Cardinality(BillableRows)
    /\ csv_stats.records = FieldSum(csv_stats.by_model, "records")
    /\ csv_stats.records = FieldSum(csv_stats.by_user, "records")
    /\ csv_stats.records = FieldSum(csv_stats.by_day, "records")
    /\ target_user # "" => DOMAIN csv_stats.by_user \subseteq {target_user}
    /\ csv_stats.errored_records =
         Cardinality({ i \in ErroredRows :
                         target_user = "" \/ RowUser(i) = target_user })

\* With the filter on alice, an errored in-window row of bob and a billable
\* row of alice: one record, no errored record, by_user holds alice alone.
C30_Witness ==
  /\ csv_pc = "returned"
  /\ target_user = "alice"
  /\ Len(csv_path) = 2
  /\ RowUser(1) = "bob" /\ InsideWindowRow(csv_path[1])
  /\ Get(csv_path[1], "Kind", <<>>) = <<"Errored">>
  /\ RowUser(2) = "alice" /\ InsideWindowRow(csv_path[2])
  /\ Get(csv_path[2], "Kind", <<>>) = <<"On-Demand">>
  /\ csv_stats.records = 1
  /\ csv_stats.errored_records = 0
  /\ DOMAIN csv_stats.by_user = {"alice"}

====
